---- MODULE Spec2Model ----
(***************************************************************************)
(* A model of the resumable chunked-upload engine of the repository.       *)
(*                                                                         *)
(* The v2 ChunkUploadService (the variant with the `locked` flag) is       *)
(* modelled handler by handler.  Every `await` of a handler is a point     *)
(* where other handlers may run: a handler is one action per segment       *)
(* between two awaits.  The effect of the awaited file-system call takes   *)
(* place in the step that resumes the handler.                             *)
(***************************************************************************)
EXTENDS Integers, Sequences, FiniteSets, TLC

\* ------------------------------------------------------------------ bounds
MaxSessions == 2
MaxTotal == 2
MaxTicks == 2
MaxRestarts == 1
NumProcs == 2
MaxChunks == 11
MaxFileSize == 7
MaxChunkSize == 4
MaxUploads == 2
MaxTimers == 2
MaxRuns == 3
MaxFailures == 8
MaxConcurrency == 2

\* ------------------------------------------------------ program constants
maxActiveUploads == 1000
abandonedThreshold == 24 * 60 * 60 * 1000
\* `chunkSize = 5 * 1024 * 1024`, in units of 2.5 MB
DefaultChunkSize == 2
\* UploadController.initiateUpload: `const chunkSize = 5 * 1024 * 1024`, in
\* the same units
controllerChunkSize == 2
\* uploadChunkWithRetry: `maxRetries: number = 3`
maxRetries == 3

\* --------------------------------------------------------------- domains
FileIds == 1..MaxSessions
Procs == 1..NumProcs
\* totalChunks and chunkIndex as requests may send them
TotalArgs == 0..MaxTotal
IndexArgs == 0..MaxTotal
FileNames == {"a.bin", "b.bin"}
FileSizes == {10, 20}
StorageMethods == {"disk", "memory"}
Payloads == {"x", "y"}
\* what the sessions of the model are started with
StartNames == {"a.bin"}
StartSizes == {10}
StartTotals == 1..MaxTotal

VARIABLES
  isInitialized,  \* ChunkUploadService.isInitialized
  activeUploads,  \* the Map fileId -> ActiveUpload
  detached,       \* ActiveUpload objects deleted from the Map that a running
                  \* getUploadStatus still holds a reference to
  chunkDirs,      \* uploads/temp/<fileId>: fileId -> (file name -> bytes)
  finalFiles,     \* uploads/<fileName>:    fileName -> bytes
  statusFile,     \* uploads/upload-status.json
  nextId,         \* the number of fileIds handed out (uuidv4 never repeats)
  clock,          \* Date.now(), in ms
  requests,       \* the requests in flight: position and locals of each
  cleaner,        \* the cleanupAbandonedUploads pass in flight
  response,       \* what the step just taken returned or threw
  purged,         \* history: the sessions the passes of the running process
                  \* have removed
  sent,           \* history, kept where a specification asks for it:
                  \* fileId -> (chunk file name -> the bytes of the first
                  \* write of that chunk file)
  acked,          \* history, kept where a specification asks for it:
                  \* fileId -> the indices uploadChunk has returned
                  \* successfully for
  finalized,      \* history: session id -> how many completeChunkUpload
                  \* (completeUpload) calls have returned a final path
  restarts,       \* history: how many times the process has been restarted
  lastActivity,   \* history, kept where a specification asks for it:
                  \* fileId -> the times at which the session was
                  \* started, a chunk of it accepted or a status query
                  \* for it answered
  uploadSessions, \* UploadPoolService: the Map uploadId -> UploadSession
  chunksDir,      \* uploads/chunks/<uploadId>: uploadId -> (file name ->
                  \* bytes)
  chunkSize,      \* useChunkedUpload: the chunkSize the hook is given
  state,          \* useChunkedUpload: the React state (status, uploadId)
  statusRef,      \* useChunkedUpload: statusRef.current
  pausedRef,      \* useChunkedUpload: pausedRef.current
  currentFileRef, \* useChunkedUpload: the size of currentFileRef.current,
                  \* 0 for null
  chunksQueueRef, \* useChunkedUpload: chunksQueueRef.current
  uploadedChunksRef, \* useChunkedUpload: uploadedChunksRef.current
  totalChunksRef, \* useChunkedUpload: totalChunksRef.current
  timers,         \* the setTimeout(uploadNextChunk, 0) callbacks that are
                  \* due: the state.uploadId each callback was created with
  flights,        \* the chunk requests of the hook that have not settled,
                  \* each with the chunk, the uploadId and whether `queue`,
                  \* the array the call took the chunk from, still is
                  \* chunksQueueRef.current
  calls,          \* the initiate and complete requests of the hook that
                  \* have not settled
  server,         \* what the server has done for the requests of the hook
  ui,             \* ChunkedUploader: the React state
  runs,           \* ChunkedUploader: the calls of handleChunkedUpload, each
                  \* with what it saw at its render and its locals
  attempts,       \* ChunkedUploader: the calls of uploadChunkWithRetry that
                  \* have not settled
  network,        \* what the server has done for the requests of the
                  \* component, and the requests of resumeUpload in flight
  controller,     \* FileUploadController: uploads/chunks/<fileId>
                  \* (uploadDir), uploads/completed (finalDir), the write
                  \* streams of mergeChunks (merges) and what the last
                  \* handler answered (reply)
  uploadBaseDir,  \* FileUploadService.uploadChunk: the files of
                  \* uploadBaseDir, the fs callbacks that are due, and the
                  \* history of the calls
  uploadDirectory \* FileUploadService.handleChunkUpload: the files of
                  \* uploadDirectory, the calls in flight, and the history
                  \* of the merges

vars == <<isInitialized, activeUploads, detached, chunkDirs, finalFiles,
          statusFile, nextId, clock, requests, cleaner, response, purged,
          sent, acked, finalized, restarts, lastActivity, uploadSessions,
          chunksDir, chunkSize, state, statusRef, pausedRef, currentFileRef,
          chunksQueueRef, uploadedChunksRef, totalChunksRef, timers, flights,
          calls, server, ui, runs, attempts, network, controller,
          uploadBaseDir, uploadDirectory>>

history == <<sent, acked, finalized>>

\* the state of the UploadPoolService (v3)
pool == <<uploadSessions, chunksDir>>

\* the services and their disk
backend == <<isInitialized, activeUploads, detached, chunkDirs, finalFiles,
             statusFile, nextId, clock, requests, cleaner, response, purged,
             history, restarts, lastActivity, pool>>

\* the useChunkedUpload hook and the requests it has sent
hook == <<chunkSize, state, statusRef, pausedRef, currentFileRef,
          chunksQueueRef, uploadedChunksRef, totalChunksRef, timers, flights,
          calls, server>>

\* the ChunkedUploader component and the requests it has sent
uploader == <<ui, runs, attempts, network>>

\* the browser
client == <<hook, uploader>>

\* the file_upload module: FileUploadController and FileUploadService
fileUpload == <<controller, uploadBaseDir, uploadDirectory>>

\* ---------------------------------------------------------------- helpers
Min(S) == CHOOSE x \in S : \A y \in S : x <= y

Remove(m, k) == [x \in (DOMAIN m) \ {k} |-> m[x]]

Put(m, k, v) == [x \in (DOMAIN m) \cup {k} |-> IF x = k THEN v ELSE m[x]]

SetOf(s) == {s[i] : i \in 1..Len(s)}

\* Array.prototype.sort((a, b) => a - b) of an array without repetitions
RECURSIVE SortNumeric(_)
SortNumeric(S) ==
  IF S = {} THEN <<>> ELSE <<Min(S)>> \o SortNumeric(S \ {Min(S)})

\* `${chunkIndex}.chunk`: the decimal digits of the index (the suffix is
\* the same for every chunk and is left out)
RECURSIVE Digits(_)
Digits(n) == IF n < 10 THEN <<n>> ELSE Digits(n \div 10) \o <<n % 10>>

getChunkFilename(chunkIndex) == Digits(chunkIndex)

\* parseInt(f.split('.')[0]) of a chunk file name
RECURSIVE parseInt(_)
parseInt(name) ==
  IF Len(name) = 0 THEN 0
  ELSE 10 * parseInt(SubSeq(name, 1, Len(name) - 1)) + name[Len(name)]

\* a sort of the chunk names as strings, the order of `chunks.sort()` without
\* a compare function ("10.chunk" ahead of "2.chunk")
RECURSIVE SortChunks_Lexicographic(_)
SortChunks_Lexicographic(names) ==
  LET LexLess(a, b) ==
        \E k \in 1 .. (Len(a) + 1) :
          /\ k - 1 <= Len(b)
          /\ SubSeq(a, 1, k - 1) = SubSeq(b, 1, k - 1)
          /\ IF k > Len(a) THEN k <= Len(b)
             ELSE k <= Len(b) /\ a[k] < b[k]
  IN IF names = {} THEN <<>>
     ELSE LET first == CHOOSE a \in names :
                         \A b \in names \ {a} : LexLess(a, b)
          IN <<first>> \o SortChunks_Lexicographic(names \ {first})

\* chunks.sort((a, b) => parseInt(a.split('.')[0]) - parseInt(b.split('.')[0]))
RECURSIVE SortChunks(_)
SortChunks(names) ==
  IF names = {} THEN <<>>
  ELSE LET first == CHOOSE a \in names :
                      \A b \in names : parseInt(a) <= parseInt(b)
       IN <<first>> \o SortChunks(names \ {first})

\* ------------------------------------------------------------ the objects
NoLocals == [pc |-> "idle", fileId |-> 0, chunkIndex |-> 0, data |-> "",
             totalChunks |-> 0, fileName |-> "", fileSize |-> 0,
             storageMethod |-> "", snap |-> <<>>, sortedChunks |-> <<>>,
             currentIndex |-> 0, buffer |-> <<>>]

NoCleaner == [pc |-> "idle", now |-> 0, pos |-> 0, cur |-> 0,
              cleanedCount |-> 0, snap |-> <<>>]

NoResponse == [op |-> "", fileId |-> 0, kind |-> "none", message |-> "",
               exists |-> FALSE, skipped |-> FALSE, chunkIndex |-> 0,
               uploadedChunks |-> <<>>, finalPath |-> "",
               isComplete |-> FALSE]

Ok(op, f) == [NoResponse EXCEPT !.op = op, !.fileId = f, !.kind = "ok"]

Error(op, f, message) ==
  [NoResponse EXCEPT !.op = op, !.fileId = f, !.kind = "error",
                     !.message = message]

Idle(p) == requests[p].pc = "idle"

\* objects nobody reads any more are collected: those are kept whose fileId
\* a getUploadStatus in flight still reads
Collect(objs, reqs) ==
  LET StatusReaders ==
        {reqs[p].fileId :
           p \in {q \in Procs :
                   reqs[q].pc \in {"gs_access", "gs_read", "rs_access",
                                   "rs_status"}}}
  IN [f \in (DOMAIN objs) \cap StatusReaders |-> objs[f]]

\* the Map after `delete(fileId)` and the objects left behind
Detach(f, reqs) ==
  IF f \in DOMAIN activeUploads
  THEN Collect(Put(detached, f, activeUploads[f]), reqs)
  ELSE Collect(detached, reqs)

\* Date.prototype.toISOString and new Date(<ISO string>): the string keeps
\* the milliseconds
toISOString(ms) == <<"iso", ms>>

newDate(iso) == iso[2]

\* JSON.stringify(Object.fromEntries(this.activeUploads), null, 2): every
\* field of every entry, the Date as its ISO string
Stringify(uploads) ==
  [f \in DOMAIN uploads |->
     [uploads[f] EXCEPT !.lastUpdated = toISOString(uploads[f].lastUpdated)]]

\* a service that loads nothing of the status file
ParseStatus_Nothing(content) == <<>>

\* JSON.parse and the Map loadUploadStatus builds of it, the Date restored
ParseStatus(content) ==
  [f \in DOMAIN content |->
     [content[f] EXCEPT !.lastUpdated = newDate(content[f].lastUpdated)]]

\* ------------------------------------------------------------------- Init
\* ChunkedUploader as useState and useRef make it, a file chosen
InitUploader ==
  /\ ui = [isUploading |-> FALSE, isPaused |-> FALSE, chunkUploadId |-> 0,
           chunkedFile |-> TRUE, status |-> "none", uploadedChunks |-> <<>>]
  /\ runs = <<>>
  /\ attempts = {}
  /\ network = [started |-> 0, accepted |-> {}, failures |-> 0,
                resumes |-> <<>>]

\* useChunkedUpload as useState and useRef make it, with the chunkSize `size`
InitHook(size) ==
  /\ chunkSize = size
  /\ state = [status |-> "idle", uploadId |-> 0]
  /\ statusRef = "idle"
  /\ pausedRef = FALSE
  /\ currentFileRef = 0
  /\ chunksQueueRef = <<>>
  /\ uploadedChunksRef = <<>>
  /\ totalChunksRef = 0
  /\ timers = <<>>
  /\ flights = <<>>
  /\ calls = [initiate |-> 0, complete |-> <<>>]
  /\ server = [uploads |-> 0, accepted |-> {}, completed |-> {}]
  /\ InitUploader

\* the file_upload module with nothing uploaded and no call made
InitFileUpload ==
  /\ controller = [uploadDir |-> <<>>, finalDir |-> <<>>, merges |-> <<>>,
                   reply |-> NoResponse]
  /\ uploadBaseDir = [metadata |-> <<>>, chunks |-> {}, due |-> {},
                      totalChunks |-> 0, called |-> {}, assembled |-> 0,
                      crashed |-> FALSE]
  /\ uploadDirectory = [chunks |-> {}, calls |-> <<>>, merges |-> 0]

\* the services as their constructors leave them
InitBackend ==
  /\ isInitialized = TRUE
  /\ activeUploads = <<>>
  /\ detached = <<>>
  /\ chunkDirs = <<>>
  /\ finalFiles = <<>>
  /\ statusFile = [exists |-> FALSE, content |-> <<>>]
  /\ nextId = 0
  /\ clock = 0
  /\ requests = [p \in Procs |-> NoLocals]
  /\ cleaner = NoCleaner
  /\ response = NoResponse
  /\ purged = {}
  /\ sent = [f \in FileIds |-> <<>>]
  /\ acked = [f \in FileIds |-> {}]
  /\ finalized = [f \in FileIds |-> 0]
  /\ restarts = 0
  /\ lastActivity = [f \in FileIds |-> {}]
  /\ uploadSessions = <<>>
  /\ chunksDir = <<>>
  /\ InitFileUpload

Init == InitBackend /\ InitHook(DefaultChunkSize)

\* ------------------------------------------------------- startChunkUpload
checkUploadLimit == Cardinality(DOMAIN activeUploads) < maxActiveUploads

\* up to `await this.ensureDirectoryExists(chunkDir)`
StartCall(p, fileName, fileSize, totalChunks, storageMethod) ==
  /\ Idle(p)
  /\ isInitialized
  /\ checkUploadLimit
  /\ nextId < MaxSessions
  /\ nextId' = nextId + 1
  /\ requests' = [requests EXCEPT ![p] =
       [NoLocals EXCEPT !.pc = "st_mkdir", !.fileId = nextId + 1,
                        !.fileName = fileName, !.totalChunks = totalChunks,
                        !.fileSize = fileSize,
                        !.storageMethod = storageMethod]]
  /\ response' = NoResponse
  /\ UNCHANGED <<isInitialized, activeUploads, detached, chunkDirs,
                 finalFiles, statusFile, clock, cleaner, purged, history,
                 restarts, pool, lastActivity,
                 client, fileUpload>>

NewUpload(fileName, fileSize, totalChunks, storageMethod, now) ==
  [fileName |-> fileName, fileSize |-> fileSize, totalChunks |-> totalChunks,
   uploadedChunks |-> <<>>, storageMethod |-> storageMethod,
   lastUpdated |-> now, locked |-> FALSE]

\* the history of the session's activity after it has been started, a chunk
\* has been accepted or a status query answered, where it is kept
Active(f, track) ==
  IF track THEN [lastActivity EXCEPT ![f] = @ \cup {clock}] ELSE lastActivity

\* the directory is made; activeUploads.set; the status file's text is built
StartMkdir(p, track) ==
  LET r == requests[p]
      f == r.fileId
      uploads == Put(activeUploads, f,
                     NewUpload(r.fileName, r.fileSize, r.totalChunks,
                               r.storageMethod, clock))
  IN /\ r.pc = "st_mkdir"
     /\ chunkDirs' = IF f \in DOMAIN chunkDirs THEN chunkDirs
                     ELSE Put(chunkDirs, f, <<>>)
     /\ activeUploads' = uploads
     /\ requests' = [requests EXCEPT ![p] =
          [r EXCEPT !.pc = "st_save", !.snap = Stringify(uploads)]]
     /\ response' = NoResponse
     /\ lastActivity' = Active(f, track)
     /\ UNCHANGED <<isInitialized, detached, finalFiles, statusFile, nextId,
                    clock, cleaner, purged, history, restarts, pool,
                 client, fileUpload>>

\* `await this.saveUploadStatus()` is over: the session id is returned
StartSave(p) ==
  LET r == requests[p]
  IN /\ r.pc = "st_save"
     /\ statusFile' = [exists |-> TRUE, content |-> r.snap]
     /\ requests' = [requests EXCEPT ![p] = NoLocals]
     /\ response' = Ok("start", r.fileId)
     /\ UNCHANGED <<isInitialized, activeUploads, detached, chunkDirs,
                    finalFiles, nextId, clock, cleaner, purged, history,
                 restarts, pool, lastActivity,
                 client, fileUpload>>

\* ------------------------------------------------------- resumeChunkUpload
\* the four comparisons of resumeChunkUpload
ResumeMatches(upload, fileName, fileSize, totalChunks, storageMethod) ==
  ~ (\/ upload.fileName # fileName
     \/ upload.fileSize # fileSize
     \/ upload.totalChunks # totalChunks
     \/ upload.storageMethod # storageMethod)

\* up to `await this.ensureDirectoryExists(chunkDir)`, or the throw
ResumeCall(p, f, fileName, fileSize, totalChunks, storageMethod) ==
  /\ Idle(p)
  /\ isInitialized
  /\ IF f \notin DOMAIN activeUploads
     THEN /\ response' = Error("resume", f, "Upload session not found")
          /\ UNCHANGED requests
     ELSE IF ~ ResumeMatches(activeUploads[f], fileName, fileSize,
                              totalChunks, storageMethod)
     THEN /\ response' = Error("resume", f,
                                "Upload parameters do not match existing session")
          /\ UNCHANGED requests
     ELSE /\ response' = NoResponse
          /\ requests' = [requests EXCEPT ![p] =
               [NoLocals EXCEPT !.pc = "rs_mkdir", !.fileId = f]]
  /\ UNCHANGED <<isInitialized, activeUploads, detached, chunkDirs,
                 finalFiles, statusFile, nextId, clock, cleaner, purged, history,
                 restarts, pool, lastActivity,
                 client, fileUpload>>

\* the directory is made; lastUpdated is refreshed on the object the handler
\* holds; the status file's text is built
ResumeMkdir(p) ==
  LET r == requests[p]
      f == r.fileId
      uploads == IF f \in DOMAIN activeUploads
                 THEN [activeUploads EXCEPT ![f].lastUpdated = clock]
                 ELSE activeUploads
  IN /\ r.pc = "rs_mkdir"
     /\ chunkDirs' = IF f \in DOMAIN chunkDirs THEN chunkDirs
                     ELSE Put(chunkDirs, f, <<>>)
     /\ activeUploads' = uploads
     /\ detached' = IF f \in DOMAIN detached
                    THEN [detached EXCEPT ![f].lastUpdated = clock]
                    ELSE detached
     /\ requests' = [requests EXCEPT ![p] =
          [r EXCEPT !.pc = "rs_save", !.snap = Stringify(uploads)]]
     /\ response' = NoResponse
     /\ UNCHANGED <<isInitialized, finalFiles, statusFile, nextId, clock,
                    cleaner, purged, history,
                 restarts, pool, lastActivity,
                 client, fileUpload>>

\* ---------------------------------------------------------- getUploadStatus
\* files.map((f) => parseInt(f.split('.')[0])).filter((n) => !isNaN(n)) of the
\* directory's listing, [] when the directory is not there
existingChunks(f) ==
  IF f \in DOMAIN chunkDirs
  THEN {parseInt(name) : name \in DOMAIN chunkDirs[f]}
  ELSE {}

\* the return value of getUploadStatus: `upload` is the ActiveUpload object
\* the handler got from the Map, wherever it is now, and allChunks is
\* Array.from(new Set([...upload.uploadedChunks, ...existingChunks])).sort(..)
StatusResponse(op, f) ==
  LET upload == IF f \in DOMAIN activeUploads THEN activeUploads[f]
                ELSE detached[f]
      allChunks == SortNumeric(SetOf(upload.uploadedChunks)
                               \cup existingChunks(f))
  IN [Ok(op, f) EXCEPT !.exists = TRUE, !.uploadedChunks = allChunks]

\* the status file is written; getUploadStatus is called, looks the session
\* up again and awaits `fs.promises.access(chunkDir)`
ResumeSave(p) ==
  LET r == requests[p]
      f == r.fileId
      reqs == [requests EXCEPT ![p] =
                IF f \in DOMAIN activeUploads
                THEN [NoLocals EXCEPT !.pc = "rs_access", !.fileId = f]
                ELSE NoLocals]
  IN /\ r.pc = "rs_save"
     /\ statusFile' = [exists |-> TRUE, content |-> r.snap]
     /\ requests' = reqs
     /\ response' = IF f \in DOMAIN activeUploads THEN NoResponse
                    ELSE Ok("resume", f)
     /\ detached' = Collect(detached, reqs)
     /\ UNCHANGED <<isInitialized, activeUploads, chunkDirs, finalFiles,
                    nextId, clock, cleaner, purged, history,
                 restarts, pool, lastActivity,
                 client, fileUpload>>

\* dirExists: `await fs.promises.readdir(chunkDir)`; or the metadata's
\* indices alone are returned
ResumeAccess(p) ==
  LET r == requests[p]
      f == r.fileId
      reqs == [requests EXCEPT ![p] =
                IF f \in DOMAIN chunkDirs THEN [r EXCEPT !.pc = "rs_status"]
                ELSE NoLocals]
  IN /\ r.pc = "rs_access"
     /\ response' = IF f \in DOMAIN chunkDirs THEN NoResponse
                    ELSE StatusResponse("resume", f)
     /\ requests' = reqs
     /\ detached' = Collect(detached, reqs)
     /\ UNCHANGED <<isInitialized, activeUploads, chunkDirs, finalFiles,
                    statusFile, nextId, clock, cleaner, purged, history,
                 restarts, pool, lastActivity,
                 client, fileUpload>>

\* the directory has been listed (the catch leaves [] when it has gone): the
\* union is returned
ResumeStatus(p) ==
  LET r == requests[p]
      reqs == [requests EXCEPT ![p] = NoLocals]
  IN /\ r.pc = "rs_status"
     /\ response' = StatusResponse("resume", r.fileId)
     /\ requests' = reqs
     /\ detached' = Collect(detached, reqs)
     /\ UNCHANGED <<isInitialized, activeUploads, chunkDirs, finalFiles,
                    statusFile, nextId, clock, cleaner, purged, history,
                 restarts, pool, lastActivity,
                 client, fileUpload>>

\* up to `await fs.promises.access(chunkDir)`, or { exists: false }
GetStatusCall(p, f) ==
  /\ Idle(p)
  /\ IF f \notin DOMAIN activeUploads
     THEN /\ response' = [Ok("status", f) EXCEPT !.exists = FALSE]
          /\ UNCHANGED requests
     ELSE /\ response' = NoResponse
          /\ requests' = [requests EXCEPT ![p] =
               [NoLocals EXCEPT !.pc = "gs_access", !.fileId = f]]
  /\ UNCHANGED <<isInitialized, activeUploads, detached, chunkDirs,
                 finalFiles, statusFile, nextId, clock, cleaner, purged, history,
                 restarts, pool, lastActivity,
                 client, fileUpload>>

\* dirExists: `await fs.promises.readdir(chunkDir)`; or the metadata's
\* indices alone are returned
GetStatusAccess(p, track) ==
  LET r == requests[p]
      f == r.fileId
      reqs == [requests EXCEPT ![p] =
                IF f \in DOMAIN chunkDirs THEN [r EXCEPT !.pc = "gs_read"]
                ELSE NoLocals]
  IN /\ r.pc = "gs_access"
     /\ response' = IF f \in DOMAIN chunkDirs THEN NoResponse
                    ELSE StatusResponse("status", f)
     /\ requests' = reqs
     /\ detached' = Collect(detached, reqs)
     /\ lastActivity' = IF f \in DOMAIN chunkDirs THEN lastActivity
                        ELSE Active(f, track)
     /\ UNCHANGED <<isInitialized, activeUploads, chunkDirs, finalFiles,
                    statusFile, nextId, clock, cleaner, purged, history,
                    restarts, pool,
                 client, fileUpload>>

\* the directory has been listed (the catch leaves [] when it has gone): the
\* union is returned
GetStatusRead(p, track) ==
  LET r == requests[p]
      reqs == [requests EXCEPT ![p] = NoLocals]
  IN /\ r.pc = "gs_read"
     /\ response' = StatusResponse("status", r.fileId)
     /\ requests' = reqs
     /\ detached' = Collect(detached, reqs)
     /\ lastActivity' = Active(r.fileId, track)
     /\ UNCHANGED <<isInitialized, activeUploads, chunkDirs, finalFiles,
                    statusFile, nextId, clock, cleaner, purged, history,
                    restarts, pool,
                 client, fileUpload>>

\* -------------------------------------------------------------- uploadChunk
\* `chunkIndex < 0 || chunkIndex >= totalChunks`, on the request's totalChunks
InvalidChunkIndex(chunkIndex, totalChunks) ==
  chunkIndex < 0 \/ chunkIndex >= totalChunks

\* Array.from(new Set([...upload.uploadedChunks, chunkIndex])).sort(..)
AddUploaded(uploadedChunks, chunkIndex) ==
  SortNumeric(SetOf(uploadedChunks) \cup {chunkIndex})

\* a service whose `fs.promises.access` of the chunk path always rejects
chunkExists_Never(f, chunkIndex) == FALSE

\* fs.promises.access(chunkPath) resolves
chunkExists(f, chunkIndex) ==
  /\ f \in DOMAIN chunkDirs
  /\ getChunkFilename(chunkIndex) \in DOMAIN chunkDirs[f]

\* up to `await fs.promises.access(chunkPath)`, or one of the three throws
UploadCall(p, f, chunkIndex, totalChunks, data) ==
  /\ Idle(p)
  /\ isInitialized
  /\ IF f \notin DOMAIN activeUploads
     THEN /\ response' = Error("upload", f, "Upload session not found")
          /\ UNCHANGED requests
     ELSE IF activeUploads[f].locked
     THEN /\ response' = Error("upload", f, "Upload is being finalized")
          /\ UNCHANGED requests
     ELSE IF InvalidChunkIndex(chunkIndex, totalChunks)
     THEN /\ response' = Error("upload", f, "Invalid chunk index")
          /\ UNCHANGED requests
     ELSE /\ response' = NoResponse
          /\ requests' = [requests EXCEPT ![p] =
               [NoLocals EXCEPT !.pc = "up_access", !.fileId = f,
                                !.chunkIndex = chunkIndex, !.data = data]]
  /\ UNCHANGED <<isInitialized, activeUploads, detached, chunkDirs,
                 finalFiles, statusFile, nextId, clock, cleaner, purged, history,
                 restarts, pool, lastActivity,
                 client, fileUpload>>

\* the chunk is there: skipped; it is not: `await ensureDirectoryExists`
UploadAccess(p, track) ==
  LET r == requests[p]
  IN /\ r.pc = "up_access"
     /\ IF chunkExists(r.fileId, r.chunkIndex)
        THEN /\ response' = [Ok("upload", r.fileId) EXCEPT
                               !.skipped = TRUE, !.chunkIndex = r.chunkIndex]
             /\ requests' = [requests EXCEPT ![p] = NoLocals]
             /\ acked' = IF track
                         THEN [acked EXCEPT ![r.fileId] = @ \cup {r.chunkIndex}]
                         ELSE acked
        ELSE /\ response' = NoResponse
             /\ requests' = [requests EXCEPT ![p].pc = "up_mkdir"]
             /\ UNCHANGED acked
     /\ UNCHANGED <<isInitialized, activeUploads, detached, chunkDirs,
                    finalFiles, statusFile, nextId, clock, cleaner, purged,
                    sent, finalized,
                 restarts, pool, lastActivity,
                 client, fileUpload>>

\* the directory is made: `await fs.promises.rename / writeFile`
UploadMkdir(p) ==
  LET r == requests[p]
      f == r.fileId
  IN /\ r.pc = "up_mkdir"
     /\ chunkDirs' = IF f \in DOMAIN chunkDirs THEN chunkDirs
                     ELSE Put(chunkDirs, f, <<>>)
     /\ requests' = [requests EXCEPT ![p].pc = "up_write"]
     /\ response' = NoResponse
     /\ UNCHANGED <<isInitialized, activeUploads, detached, finalFiles,
                    statusFile, nextId, clock, cleaner, purged, history,
                 restarts, pool, lastActivity,
                 client, fileUpload>>

\* the chunk file is written (ENOENT when the directory has gone: the catch
\* rethrows); uploadedChunks and lastUpdated are updated on the object the
\* handler holds; the status file's text is built
UploadWrite(p, track) ==
  LET r == requests[p]
      f == r.fileId
      uploads == IF f \in DOMAIN activeUploads
                 THEN [activeUploads EXCEPT
                         ![f].uploadedChunks =
                            AddUploaded(activeUploads[f].uploadedChunks,
                                        r.chunkIndex),
                         ![f].lastUpdated = clock]
                 ELSE activeUploads
  IN /\ r.pc = "up_write"
     /\ IF f \in DOMAIN chunkDirs
        THEN /\ chunkDirs' = [chunkDirs EXCEPT ![f] =
                  Put(chunkDirs[f], getChunkFilename(r.chunkIndex), r.data)]
             /\ activeUploads' = uploads
             /\ detached' =
                  IF f \in DOMAIN detached
                  THEN [detached EXCEPT
                          ![f].uploadedChunks =
                             AddUploaded(detached[f].uploadedChunks,
                                         r.chunkIndex),
                          ![f].lastUpdated = clock]
                  ELSE detached
             /\ requests' = [requests EXCEPT ![p] =
                  [r EXCEPT !.pc = "up_save", !.snap = Stringify(uploads)]]
             /\ response' = NoResponse
             /\ sent' = IF getChunkFilename(r.chunkIndex) \in DOMAIN sent[f]
                           \/ ~ track
                        THEN sent
                        ELSE [sent EXCEPT ![f] =
                               Put(@, getChunkFilename(r.chunkIndex), r.data)]
             /\ lastActivity' = Active(f, track)
        ELSE /\ response' = Error("upload", f, "Failed to save chunk")
             /\ requests' = [requests EXCEPT ![p] = NoLocals]
             /\ UNCHANGED <<chunkDirs, activeUploads, detached, sent,
                            lastActivity>>
     /\ UNCHANGED <<isInitialized, finalFiles, statusFile, nextId, clock,
                    cleaner, purged, acked, finalized, restarts, pool,
                 client, fileUpload>>

\* the status file is written: the chunk is acknowledged
UploadSave(p, track) ==
  LET r == requests[p]
  IN /\ r.pc = "up_save"
     /\ statusFile' = [exists |-> TRUE, content |-> r.snap]
     /\ requests' = [requests EXCEPT ![p] = NoLocals]
     /\ response' = [Ok("upload", r.fileId) EXCEPT
                       !.chunkIndex = r.chunkIndex]
     /\ acked' = IF track
                 THEN [acked EXCEPT ![r.fileId] = @ \cup {r.chunkIndex}]
                 ELSE acked
     /\ UNCHANGED <<isInitialized, activeUploads, detached, chunkDirs,
                    finalFiles, nextId, clock, cleaner, purged, sent,
                    finalized,
                 restarts, pool, lastActivity,
                 client, fileUpload>>

\* ------------------------------------------------------ completeChunkUpload
\* a catch that leaves the lock as it is
Unlock_Keep(objs, f) == objs

\* `upload.locked = false` in the catch, on the object the handler holds
Unlock(objs, f) ==
  IF f \in DOMAIN objs THEN [objs EXCEPT ![f].locked = FALSE] ELSE objs

\* `chunks.length !== totalChunks`, on the request's totalChunks
IncompleteUpload(chunks, totalChunks) == Cardinality(chunks) # totalChunks

\* a service that never takes a session to be in finalization
AlreadyFinalizing_Never(upload) == FALSE

\* `if (upload.locked)` of completeChunkUpload
AlreadyFinalizing(upload) == upload.locked

\* the catch of completeChunkUpload: unlock and rethrow
CompleteThrow(p, message) ==
  LET f == requests[p].fileId
  IN /\ activeUploads' = Unlock(activeUploads, f)
     /\ detached' = Unlock(detached, f)
     /\ requests' = [requests EXCEPT ![p] = NoLocals]
     /\ response' = Error("complete", f, message)

\* up to `await fs.promises.readdir(chunkDir)`, the session locked, or one of
\* the two throws ahead of the try
CompleteCall(p, f, fileName, totalChunks) ==
  /\ Idle(p)
  /\ isInitialized
  /\ IF f \notin DOMAIN activeUploads
     THEN /\ response' = Error("complete", f, "Upload session not found")
          /\ UNCHANGED <<requests, activeUploads>>
     ELSE IF AlreadyFinalizing(activeUploads[f])
     THEN /\ response' = Error("complete", f,
                                "Upload is already being finalized")
          /\ UNCHANGED <<requests, activeUploads>>
     ELSE /\ response' = NoResponse
          /\ activeUploads' = [activeUploads EXCEPT ![f].locked = TRUE]
          /\ requests' = [requests EXCEPT ![p] =
               [NoLocals EXCEPT !.pc = "co_readdir", !.fileId = f,
                                !.fileName = fileName,
                                !.totalChunks = totalChunks]]
  /\ UNCHANGED <<isInitialized, detached, chunkDirs, finalFiles, statusFile,
                 nextId, clock, cleaner, purged, history,
                 restarts, pool, lastActivity,
                 client, fileUpload>>

\* the directory has been listed (ENOENT when it has gone).  All chunks
\* counted: the names are sorted and mergeChunksStreaming opens the write
\* stream on the final path and the read stream of the first chunk
CompleteReaddir(p) ==
  LET r == requests[p]
      f == r.fileId
  IN /\ r.pc = "co_readdir"
     /\ IF f \notin DOMAIN chunkDirs
        THEN /\ CompleteThrow(p, "Failed to merge file: ENOENT")
             /\ UNCHANGED finalFiles
        ELSE IF IncompleteUpload(DOMAIN chunkDirs[f], r.totalChunks)
        THEN /\ CompleteThrow(p, "Failed to merge file: Incomplete upload")
             /\ UNCHANGED finalFiles
        ELSE /\ finalFiles' = Put(finalFiles, r.fileName, <<>>)
             /\ requests' = [requests EXCEPT ![p] =
                  [r EXCEPT !.pc = IF DOMAIN chunkDirs[f] = {}
                                   THEN "co_rm" ELSE "co_merge",
                            !.sortedChunks = SortChunks(DOMAIN chunkDirs[f]),
                            !.currentIndex = 0]]
             /\ response' = NoResponse
             /\ UNCHANGED <<activeUploads, detached>>
     /\ UNCHANGED <<isInitialized, chunkDirs, statusFile, nextId, clock,
                    cleaner, purged, history,
                 restarts, pool, lastActivity,
                 client, fileUpload>>

\* writeNext: the chunk at currentIndex has been piped into the write stream
\* and unlinked (its read stream fails when the file has gone); after the
\* last one the stream is ended and `await fs.promises.rm(chunkDir)` follows
mergeChunksStreaming(p) ==
  LET r == requests[p]
      f == r.fileId
      name == r.sortedChunks[r.currentIndex + 1]
  IN /\ r.pc = "co_merge"
     /\ IF f \in DOMAIN chunkDirs /\ name \in DOMAIN chunkDirs[f]
        THEN /\ finalFiles' =
                  Put(finalFiles, r.fileName,
                      (IF r.fileName \in DOMAIN finalFiles
                       THEN finalFiles[r.fileName] ELSE <<>>)
                      \o <<chunkDirs[f][name]>>)
             /\ chunkDirs' = [chunkDirs EXCEPT ![f] = Remove(chunkDirs[f], name)]
             /\ requests' = [requests EXCEPT ![p] =
                  [r EXCEPT !.currentIndex = r.currentIndex + 1,
                            !.pc = IF r.currentIndex + 1 >= Len(r.sortedChunks)
                                   THEN "co_rm" ELSE "co_merge"]]
             /\ response' = NoResponse
             /\ UNCHANGED <<activeUploads, detached>>
        ELSE /\ CompleteThrow(p, "Failed to merge file: ENOENT")
             /\ UNCHANGED <<finalFiles, chunkDirs>>
     /\ UNCHANGED <<isInitialized, statusFile, nextId, clock, cleaner, purged, history,
                 restarts, pool, lastActivity,
                 client, fileUpload>>

\* a stream emits 'error' while a chunk is piped (a failing disk): the
\* promise is rejected and the catch unlocks
MergeIOError(p) ==
  /\ requests[p].pc = "co_merge"
  /\ CompleteThrow(p, "Failed to merge file: EIO")
  /\ UNCHANGED <<isInitialized, chunkDirs, finalFiles, statusFile, nextId,
                 clock, cleaner, purged, history,
                 restarts, pool, lastActivity,
                 client, fileUpload>>

\* the chunk directory is removed; activeUploads.delete; the status file's
\* text is built
CompleteRm(p) ==
  LET r == requests[p]
      f == r.fileId
      uploads == Remove(activeUploads, f)
      reqs == [requests EXCEPT ![p] =
                [r EXCEPT !.pc = "co_save", !.snap = Stringify(uploads)]]
  IN /\ r.pc = "co_rm"
     /\ chunkDirs' = Remove(chunkDirs, f)
     /\ activeUploads' = uploads
     /\ detached' = Detach(f, reqs)
     /\ requests' = reqs
     /\ response' = NoResponse
     /\ UNCHANGED <<isInitialized, finalFiles, statusFile, nextId, clock,
                    cleaner, purged, history,
                 restarts, pool, lastActivity,
                 client, fileUpload>>

\* the status file is written: the final path is returned
CompleteSave(p) ==
  LET r == requests[p]
  IN /\ r.pc = "co_save"
     /\ statusFile' = [exists |-> TRUE, content |-> r.snap]
     /\ requests' = [requests EXCEPT ![p] = NoLocals]
     /\ response' = [Ok("complete", r.fileId) EXCEPT !.finalPath = r.fileName]
     /\ finalized' = [finalized EXCEPT ![r.fileId] = @ + 1]
     /\ UNCHANGED <<isInitialized, activeUploads, detached, chunkDirs,
                    finalFiles, nextId, clock, cleaner, purged, sent, acked,
                 restarts, pool, lastActivity,
                 client, fileUpload>>

\* -------------------------------------------------- cleanupAbandonedUploads
\* a pass that takes a session of exactly 24 hours for abandoned
IsAbandoned_AtThreshold(now, upload) ==
  now - upload.lastUpdated >= abandonedThreshold

\* `now.getTime() - lastUpdated.getTime() > abandonedThreshold`
IsAbandoned(now, upload) == now - upload.lastUpdated > abandonedThreshold

\* the for-of loop up to its next await: the entries after `pos` (the Map
\* iterates in insertion order, the order of the ids) that are locked or
\* recent are passed over; the first other one is the one to remove
\* the pass runs on from `pos` over `uploads`: to the next await of
\* fs.promises.access, to the await of saveUploadStatus, or to its end
CleanupLoop(c, uploads) ==
  LET rest == {f \in DOMAIN uploads :
                 /\ f > c.pos
                 /\ ~ uploads[f].locked
                 /\ IsAbandoned(c.now, uploads[f])}
  IN IF rest # {}
     THEN [c EXCEPT !.pc = "cl_access", !.cur = Min(rest), !.pos = Min(rest)]
     ELSE IF c.cleanedCount > 0
     THEN [c EXCEPT !.pc = "cl_save", !.cur = 0, !.snap = Stringify(uploads)]
     ELSE NoCleaner

\* the scheduler's timer fires, or POST chunk/v2/cleanup arrives
CleanupStart ==
  /\ cleaner.pc = "idle"
  /\ cleaner' = CleanupLoop([NoCleaner EXCEPT !.now = clock], activeUploads)
  /\ response' = IF cleaner'.pc = "idle" THEN Ok("cleanup", 0) ELSE NoResponse
  /\ UNCHANGED <<isInitialized, activeUploads, detached, chunkDirs,
                 finalFiles, statusFile, nextId, clock, requests, purged, history,
                 restarts, pool, lastActivity,
                 client, fileUpload>>

\* activeUploads.delete(fileId); cleanedCount++; the loop runs on
CleanupDelete ==
  LET f == cleaner.cur
      uploads == Remove(activeUploads, f)
  IN /\ activeUploads' = uploads
     /\ detached' = Detach(f, requests)
     /\ cleaner' = CleanupLoop(
                     [cleaner EXCEPT !.cleanedCount = cleaner.cleanedCount + 1],
                     uploads)
     /\ purged' = purged \cup {f}

\* dirExists: `await fs.promises.rm(chunkDir, ..)`; or the entry is deleted
CleanupAccess ==
  /\ cleaner.pc = "cl_access"
  /\ IF cleaner.cur \in DOMAIN chunkDirs
     THEN /\ cleaner' = [cleaner EXCEPT !.pc = "cl_rm"]
          /\ UNCHANGED <<activeUploads, detached, purged>>
     ELSE CleanupDelete
  /\ response' = NoResponse
  /\ UNCHANGED <<isInitialized, chunkDirs, finalFiles, statusFile, nextId,
                 clock, requests, history,
                 restarts, pool, lastActivity,
                 client, fileUpload>>

\* the directory has been removed; the entry is deleted
CleanupRm ==
  /\ cleaner.pc = "cl_rm"
  /\ chunkDirs' = Remove(chunkDirs, cleaner.cur)
  /\ CleanupDelete
  /\ response' = NoResponse
  /\ UNCHANGED <<isInitialized, finalFiles, statusFile, nextId, clock,
                 requests, history,
                 restarts, pool, lastActivity,
                 client, fileUpload>>

\* the status file is written: the pass is over
CleanupSave ==
  /\ cleaner.pc = "cl_save"
  /\ statusFile' = [exists |-> TRUE, content |-> cleaner.snap]
  /\ cleaner' = NoCleaner
  /\ response' = Ok("cleanup", 0)
  /\ UNCHANGED <<isInitialized, activeUploads, detached, chunkDirs,
                 finalFiles, nextId, clock, requests, purged, history,
                 restarts, pool, lastActivity,
                 client, fileUpload>>

\* ------------------------------------------------- UploadPoolService (v3)
\* Math.ceil(fileSize / totalChunks)
Ceil(a, b) == (a + b - 1) \div b

\* `chunk-${chunkIndex}`: the decimal digits of the index (the prefix is the
\* same for every chunk and is left out)
chunkPath(chunkIndex) == Digits(chunkIndex)

UploadSession(fileName, fileSize, totalChunks, now) ==
  [fileName |-> fileName, fileSize |-> fileSize, totalChunks |-> totalChunks,
   uploadedChunks |-> {}, chunkSize |-> Ceil(fileSize, totalChunks),
   createdAt |-> now, lastActivity |-> now]

\* the session is set in the Map and its chunk directory made
initiateUpload(fileName, fileSize, totalChunks) ==
  LET uploadId == nextId + 1
  IN /\ nextId < MaxSessions
     /\ nextId' = uploadId
     /\ uploadSessions' = Put(uploadSessions, uploadId,
                              UploadSession(fileName, fileSize, totalChunks,
                                            clock))
     /\ chunksDir' = IF uploadId \in DOMAIN chunksDir THEN chunksDir
                     ELSE Put(chunksDir, uploadId, <<>>)
     /\ response' = Ok("initiateUpload", uploadId)
     /\ UNCHANGED <<isInitialized, activeUploads, detached, chunkDirs,
                    finalFiles, statusFile, clock, requests, cleaner, purged,
                    history, restarts, lastActivity,
                 client, fileUpload>>

\* uploadChunk without `chunkIndex >= session.totalChunks`
uploadChunk_AnyIndex(uploadId, chunkIndex, chunkBuffer) ==
  /\ IF uploadId \notin DOMAIN uploadSessions
     THEN /\ response' = Error("uploadChunk", uploadId,
                                "Upload session not found")
          /\ UNCHANGED pool
     ELSE IF chunkIndex < 0
     THEN /\ response' = Error("uploadChunk", uploadId, "Invalid chunk index")
          /\ UNCHANGED pool
     ELSE IF uploadId \notin DOMAIN chunksDir
     THEN /\ response' = Error("uploadChunk", uploadId, "ENOENT")
          /\ UNCHANGED pool
     ELSE /\ chunksDir' = [chunksDir EXCEPT ![uploadId] =
                             Put(@, chunkPath(chunkIndex), chunkBuffer)]
          /\ uploadSessions' = [uploadSessions EXCEPT
                                  ![uploadId].uploadedChunks =
                                     @ \cup {chunkIndex},
                                  ![uploadId].lastActivity = clock]
          /\ response' = [Ok("uploadChunk", uploadId) EXCEPT
                            !.chunkIndex = chunkIndex]
  /\ UNCHANGED <<isInitialized, activeUploads, detached, chunkDirs,
                 finalFiles, statusFile, nextId, clock, requests, cleaner,
                 purged, history, restarts, lastActivity,
                 client, fileUpload>>

\* the chunk file is written, whether it was there or not; the index is
\* added to the session's Set; there is no await in between
uploadChunk(uploadId, chunkIndex, chunkBuffer) ==
  /\ IF uploadId \notin DOMAIN uploadSessions
     THEN /\ response' = Error("uploadChunk", uploadId,
                                "Upload session not found")
          /\ UNCHANGED pool
     ELSE IF \/ chunkIndex < 0
             \/ chunkIndex >= uploadSessions[uploadId].totalChunks
     THEN /\ response' = Error("uploadChunk", uploadId, "Invalid chunk index")
          /\ UNCHANGED pool
     ELSE IF uploadId \notin DOMAIN chunksDir
     THEN /\ response' = Error("uploadChunk", uploadId, "ENOENT")
          /\ UNCHANGED pool
     ELSE /\ chunksDir' = [chunksDir EXCEPT ![uploadId] =
                             Put(@, chunkPath(chunkIndex), chunkBuffer)]
          /\ uploadSessions' = [uploadSessions EXCEPT
                                  ![uploadId].uploadedChunks =
                                     @ \cup {chunkIndex},
                                  ![uploadId].lastActivity = clock]
          /\ response' = [Ok("uploadChunk", uploadId) EXCEPT
                            !.chunkIndex = chunkIndex]
  /\ UNCHANGED <<isInitialized, activeUploads, detached, chunkDirs,
                 finalFiles, statusFile, nextId, clock, requests, cleaner,
                 purged, history, restarts, lastActivity,
                 client, fileUpload>>

\* UploadPoolService.getUploadStatus: the session's Set, sorted
getUploadStatus(uploadId) ==
  /\ response' =
       IF uploadId \notin DOMAIN uploadSessions
       THEN Error("getUploadStatus", uploadId, "Upload session not found")
       ELSE LET session == uploadSessions[uploadId]
            IN [Ok("getUploadStatus", uploadId) EXCEPT
                  !.exists = TRUE,
                  !.uploadedChunks = SortNumeric(session.uploadedChunks),
                  !.isComplete = Cardinality(session.uploadedChunks)
                                   = session.totalChunks]
  /\ UNCHANGED <<isInitialized, activeUploads, detached, chunkDirs,
                 finalFiles, statusFile, nextId, clock, requests, cleaner,
                 purged, history, restarts, lastActivity, pool,
                 client, fileUpload>>

\* the chunk files of the session are unlinked; the unlinkSync of the
\* directory that follows throws (fs.unlink does not work on a directory)
cleanupChunks(dirs, uploadId) ==
  IF uploadId \in DOMAIN dirs THEN [dirs EXCEPT ![uploadId] = <<>>] ELSE dirs

\* cleanupChunks throws: there was a directory to unlink
cleanupThrows(dirs, uploadId) == uploadId \in DOMAIN dirs

\* completeUpload up to `await new Promise(..)`: the write stream is created,
\* the chunk files are read one after the other and queued on the stream;
\* a chunk file that is missing makes readFileSync throw, and the stream is
\* left to open with what was queued
completeUpload(p, uploadId) ==
  /\ Idle(p)
  /\ IF uploadId \notin DOMAIN uploadSessions
     THEN /\ response' = Error("completeUpload", uploadId,
                                "Upload session not found")
          /\ UNCHANGED requests
     ELSE LET session == uploadSessions[uploadId]
              files == IF uploadId \in DOMAIN chunksDir
                       THEN chunksDir[uploadId] ELSE <<>>
              missing == {i \in 0 .. (session.totalChunks - 1) :
                            chunkPath(i) \notin DOMAIN files}
              count == IF missing = {} THEN session.totalChunks
                       ELSE Min(missing)
              queued == [i \in 1 .. count |-> files[chunkPath(i - 1)]]
          IN IF Cardinality(session.uploadedChunks) # session.totalChunks
             THEN /\ response' = Error("completeUpload", uploadId,
                                        "Not all chunks uploaded")
                  /\ UNCHANGED requests
             ELSE /\ response' = IF missing = {} THEN NoResponse
                                 ELSE Error("completeUpload", uploadId,
                                            "ENOENT")
                  /\ requests' = [requests EXCEPT ![p] =
                       [NoLocals EXCEPT
                          !.pc = IF missing = {} THEN "v3_open"
                                 ELSE "v3_orphan",
                          !.fileId = uploadId,
                          !.fileName = session.fileName,
                          !.buffer = queued]]
  /\ UNCHANGED <<isInitialized, activeUploads, detached, chunkDirs,
                 finalFiles, statusFile, nextId, clock, cleaner, purged,
                 history, restarts, lastActivity, pool,
                 client, fileUpload>>

\* createWriteStream(finalFilePath) has opened the file, which truncates it,
\* and what was queued is written; a stream that was ended emits 'finish'
writeStream(p) ==
  LET r == requests[p]
  IN /\ r.pc \in {"v3_open", "v3_orphan"}
     /\ finalFiles' = Put(finalFiles, r.fileName, r.buffer)
     /\ requests' = [requests EXCEPT ![p] =
          IF r.pc = "v3_open" THEN [r EXCEPT !.pc = "v3_finish"]
          ELSE NoLocals]
     /\ response' = NoResponse
     /\ UNCHANGED <<isInitialized, activeUploads, detached, chunkDirs,
                    statusFile, nextId, clock, cleaner, purged, history,
                    restarts, lastActivity, pool,
                 client, fileUpload>>

\* 'finish': cleanupChunks, then uploadSessions.delete and the final path,
\* unless cleanupChunks has thrown
completeUploadFinish(p) ==
  LET r == requests[p]
      uploadId == r.fileId
  IN /\ r.pc = "v3_finish"
     /\ chunksDir' = cleanupChunks(chunksDir, uploadId)
     /\ requests' = [requests EXCEPT ![p] = NoLocals]
     /\ IF cleanupThrows(chunksDir, uploadId)
        THEN /\ response' = Error("completeUpload", uploadId, "EISDIR")
             /\ UNCHANGED <<uploadSessions, finalized>>
        ELSE /\ response' = [Ok("completeUpload", uploadId) EXCEPT
                               !.finalPath = r.fileName]
             /\ uploadSessions' = Remove(uploadSessions, uploadId)
             /\ finalized' = [finalized EXCEPT ![uploadId] = @ + 1]
     /\ UNCHANGED <<isInitialized, activeUploads, detached, chunkDirs,
                    finalFiles, statusFile, nextId, clock, cleaner, purged,
                    sent, acked, restarts, lastActivity,
                 client, fileUpload>>

\* cancelUpload: cleanupChunks, then uploadSessions.delete unless
\* cleanupChunks has thrown
cancelUpload(uploadId) ==
  /\ IF uploadId \notin DOMAIN uploadSessions
     THEN /\ response' = Error("cancelUpload", uploadId,
                                "Upload session not found")
          /\ UNCHANGED pool
     ELSE /\ chunksDir' = cleanupChunks(chunksDir, uploadId)
          /\ IF cleanupThrows(chunksDir, uploadId)
             THEN /\ response' = Error("cancelUpload", uploadId, "EISDIR")
                  /\ UNCHANGED uploadSessions
             ELSE /\ response' = Ok("cancelUpload", uploadId)
                  /\ uploadSessions' = Remove(uploadSessions, uploadId)
  /\ UNCHANGED <<isInitialized, activeUploads, detached, chunkDirs,
                 finalFiles, statusFile, nextId, clock, requests, cleaner,
                 purged, history, restarts, lastActivity,
                 client, fileUpload>>

\* `private readonly sessionTimeout`
sessionTimeout == 24 * 60 * 60 * 1000

\* the callback of setInterval: the sessions are gone through in the order
\* of the Map; at the first expired one cleanupChunks unlinks the chunk
\* files and throws out of the callback, which nothing catches: the process
\* dies of it (`dies`, what Node does by itself), or it lives on where an
\* 'uncaughtException' handler is installed.  With no directory to unlink
\* the session is deleted and the loop goes on.
cleanupInterval(dies) ==
  LET expired == {u \in DOMAIN uploadSessions :
                    clock - uploadSessions[u].lastActivity > sessionTimeout}
      thrown == {u \in expired : cleanupThrows(chunksDir, u)}
      done == IF thrown = {} THEN expired
              ELSE {u \in expired : u < Min(thrown)}
      sessions == [u \in (DOMAIN uploadSessions) \ done |->
                     uploadSessions[u]]
  IN /\ chunksDir' = IF thrown = {} THEN chunksDir
                     ELSE cleanupChunks(chunksDir, Min(thrown))
     /\ IF thrown # {} /\ dies
        THEN /\ restarts < MaxRestarts
             /\ restarts' = restarts + 1
             /\ uploadSessions' = <<>>
             /\ requests' = [p \in Procs |-> NoLocals]
             /\ response' = NoResponse
        ELSE /\ thrown = {} => ~ dies
             /\ uploadSessions' = sessions
             /\ response' = IF thrown = {} THEN Ok("cleanupInterval", 0)
                            ELSE Error("cleanupInterval", Min(thrown),
                                       "EISDIR")
             /\ UNCHANGED <<requests, restarts>>
     /\ UNCHANGED <<isInitialized, activeUploads, detached, chunkDirs,
                    finalFiles, statusFile, nextId, clock, cleaner, purged,
                    history, lastActivity, client, fileUpload>>

\* ------------------------------------------------------ the process, time
\* the process dies: its memory, its requests and its pending writes go,
\* the files stay
Crash ==
  /\ isInitialized
  /\ restarts < MaxRestarts
  /\ restarts' = restarts + 1
  /\ isInitialized' = FALSE
  /\ activeUploads' = <<>>
  /\ detached' = <<>>
  /\ requests' = [p \in Procs |-> NoLocals]
  /\ cleaner' = NoCleaner
  /\ purged' = {}
  /\ response' = NoResponse
  /\ uploadSessions' = <<>>
  /\ UNCHANGED <<chunkDirs, finalFiles, statusFile, nextId, clock, history,
                 lastActivity, chunksDir, client, fileUpload>>

\* onModuleInit of the new process: loadUploadStatus, then isInitialized
initialize ==
  /\ ~ isInitialized
  /\ isInitialized' = TRUE
  /\ activeUploads' = IF statusFile.exists THEN ParseStatus(statusFile.content)
                      ELSE activeUploads
  /\ response' = NoResponse
  /\ UNCHANGED <<detached, chunkDirs, finalFiles, statusFile, nextId, clock,
                 requests, cleaner, purged, history,
                 restarts, pool, lastActivity,
                 client, fileUpload>>

Tick ==
  /\ clock < MaxTicks * abandonedThreshold
  /\ clock' = clock + abandonedThreshold
  /\ response' = NoResponse
  /\ UNCHANGED <<isInitialized, activeUploads, detached, chunkDirs,
                 finalFiles, statusFile, nextId, requests, cleaner, purged, history,
                 restarts, pool, lastActivity,
                 client, fileUpload>>

\* ------------------------------------------------------- useChunkedUpload
\* The hook of the FileUploadChunkedV3 page.  Its async callbacks are one
\* action per segment between two awaits; a request of the hook settles in
\* a step of its own, when the server has answered or the network failed.
\* the while loop of splitFileIntoChunks, from `offset` and `index` on;
\* file.slice(start, end) of a file of fileSize bytes is the bytes
\* [start, end) of the file that the Blob holds
RECURSIVE SplitFrom(_, _, _, _)
SplitFrom(fileSize, configured, offset, index) ==
  IF offset < fileSize
  THEN LET size == Min({configured, fileSize - offset})
           slice(start, end) ==
             <<Min({start, fileSize}), Min({end, fileSize})>>
       IN <<[blob |-> slice(offset, offset + size),
             index |-> index, size |-> size]>>
          \o SplitFrom(fileSize, configured, offset + size, index + 1)
  ELSE <<>>

\* splitFileIntoChunks without the chunk that is shorter than chunkSize
splitFileIntoChunks_DropTail(fileSize, configured) ==
  SubSeq(SplitFrom(fileSize, configured, 0, 0), 1, fileSize \div configured)

splitFileIntoChunks(fileSize, configured) ==
  SplitFrom(fileSize, configured, 0, 0)

\* setState((p) => ({ ...p, status })) together with statusRef.current
SetStatus(status) ==
  /\ state' = [state EXCEPT !.status = status]
  /\ statusRef' = status

\* initializeUpload up to `await initiateFileUploadMutation.mutateAsync`
hook_initializeUpload(fileSize) ==
  /\ server.uploads + calls.initiate < MaxUploads
  /\ SetStatus("initiating")
  /\ currentFileRef' = fileSize
  /\ chunksQueueRef' = splitFileIntoChunks(fileSize, chunkSize)
  /\ totalChunksRef' = Len(splitFileIntoChunks(fileSize, chunkSize))
  /\ uploadedChunksRef' = <<>>
  /\ flights' = [k \in DOMAIN flights |->
                   [flights[k] EXCEPT !.current = FALSE]]
  /\ calls' = [calls EXCEPT !.initiate = @ + 1]
  /\ UNCHANGED <<backend, fileUpload, uploader, chunkSize, pausedRef, timers,
                 server>>

\* initializeUpload after the await: the server has answered with a new
\* uploadId (`ok`), or the request has failed
hook_initializeUploadSettles(ok) ==
  /\ calls.initiate > 0
  /\ calls' = [calls EXCEPT !.initiate = @ - 1]
  /\ IF ok
     THEN /\ server' = [server EXCEPT !.uploads = @ + 1]
          /\ state' = [status |-> "idle", uploadId |-> server.uploads + 1]
          /\ statusRef' = "idle"
     ELSE /\ SetStatus("error")
          /\ UNCHANGED server
  /\ UNCHANGED <<backend, fileUpload, uploader, chunkSize, pausedRef,
                 currentFileRef, chunksQueueRef, uploadedChunksRef,
                 totalChunksRef, timers, flights>>

\* a setTimeout(uploadNextChunk, 0) callback runs, up to
\* `await fileUploadMutation.mutateAsync(formData)`: the request it sends
\* carries the state.uploadId the callback was created with
uploadNextChunk ==
  /\ timers # <<>>
  /\ timers' = Tail(timers)
  /\ IF pausedRef \/ statusRef # "uploading"
     THEN UNCHANGED <<state, statusRef, chunksQueueRef, flights>>
     ELSE IF chunksQueueRef = <<>>
     THEN /\ IF Len(uploadedChunksRef) = totalChunksRef
             THEN SetStatus("completed")
             ELSE UNCHANGED <<state, statusRef>>
          /\ UNCHANGED <<chunksQueueRef, flights>>
     ELSE /\ chunksQueueRef' = Tail(chunksQueueRef)
          /\ flights' = Append(flights, [chunk |-> Head(chunksQueueRef),
                                         uploadId |-> Head(timers),
                                         current |-> TRUE])
          /\ UNCHANGED <<state, statusRef>>
  /\ UNCHANGED <<backend, fileUpload, uploader, chunkSize, pausedRef,
                 currentFileRef, uploadedChunksRef, totalChunksRef, calls,
                 server>>

\* uploadNextChunk after the await, for the i-th request in flight: the
\* server has accepted the chunk and answered (`ok`), or the request has
\* failed, the chunk having reached the server (`arrived`) or not
uploadNextChunkSettles(i, ok, arrived) ==
  LET flight == flights[i]
      pushed == Append(uploadedChunksRef, flight.chunk.index)
  IN /\ i \in 1..Len(flights)
     /\ ok => arrived
     /\ flights' = [k \in 1..(Len(flights) - 1) |->
                      IF k < i THEN flights[k] ELSE flights[k + 1]]
     /\ server' = IF arrived
                  THEN [server EXCEPT !.accepted =
                          @ \cup {<<flight.uploadId, flight.chunk.index>>}]
                  ELSE server
     /\ IF ok
        THEN /\ uploadedChunksRef' = SortSeq(pushed, LAMBDA a, b : a < b)
             /\ timers' = Append(timers, flight.uploadId)
             /\ UNCHANGED <<state, statusRef, chunksQueueRef>>
        ELSE /\ chunksQueueRef' = IF flight.current
                                  THEN <<flight.chunk>> \o chunksQueueRef
                                  ELSE chunksQueueRef
             /\ SetStatus("error")
             /\ UNCHANGED <<uploadedChunksRef, timers>>
     /\ UNCHANGED <<backend, fileUpload, uploader, chunkSize, pausedRef,
                    currentFileRef, totalChunksRef, calls>>

hook_startUpload ==
  /\ Len(timers) < MaxTimers
  /\ IF currentFileRef = 0 \/ state.uploadId = 0
     THEN /\ state' = [state EXCEPT !.status = "error"]
          /\ UNCHANGED <<pausedRef, statusRef, timers>>
     ELSE /\ pausedRef' = FALSE
          /\ SetStatus("uploading")
          /\ timers' = Append(timers, state.uploadId)
  /\ UNCHANGED <<backend, fileUpload, uploader, chunkSize, currentFileRef,
                 chunksQueueRef, uploadedChunksRef, totalChunksRef, flights,
                 calls, server>>

hook_pauseUpload ==
  /\ pausedRef' = TRUE
  /\ SetStatus("paused")
  /\ UNCHANGED <<backend, fileUpload, uploader, chunkSize, currentFileRef,
                 chunksQueueRef, uploadedChunksRef, totalChunksRef, timers,
                 flights, calls, server>>

hook_resumeUpload ==
  /\ Len(timers) < MaxTimers
  /\ pausedRef' = FALSE
  /\ SetStatus("uploading")
  /\ timers' = Append(timers, state.uploadId)
  /\ UNCHANGED <<backend, fileUpload, uploader, chunkSize, currentFileRef,
                 chunksQueueRef, uploadedChunksRef, totalChunksRef, flights,
                 calls, server>>

hook_cancelUpload ==
  /\ pausedRef' = FALSE
  /\ statusRef' = "cancelled"
  /\ chunksQueueRef' = <<>>
  /\ uploadedChunksRef' = <<>>
  /\ currentFileRef' = 0
  /\ flights' = [k \in DOMAIN flights |->
                   [flights[k] EXCEPT !.current = FALSE]]
  /\ state' = [status |-> "cancelled", uploadId |-> 0]
  /\ UNCHANGED <<backend, fileUpload, uploader, chunkSize, totalChunksRef,
                 timers, calls, server>>

\* completeUpload up to `await completeFileUploadMutation.mutateAsync`
hook_completeUpload ==
  /\ state.uploadId # 0
  /\ Len(calls.complete) < MaxUploads
  /\ calls' = [calls EXCEPT !.complete = Append(@, state.uploadId)]
  /\ UNCHANGED <<backend, fileUpload, uploader, chunkSize, state, statusRef,
                 pausedRef, currentFileRef, chunksQueueRef, uploadedChunksRef,
                 totalChunksRef, timers, flights, server>>

\* completeUpload after the await: the server has completed the upload and
\* answered (`ok`), or the request has failed
hook_completeUploadSettles(ok) ==
  /\ calls.complete # <<>>
  /\ calls' = [calls EXCEPT !.complete = Tail(@)]
  /\ IF ok
     THEN /\ server' = [server EXCEPT !.completed =
                          @ \cup {Head(calls.complete)}]
          /\ SetStatus("completed")
     ELSE /\ SetStatus("error")
          /\ UNCHANGED server
  /\ UNCHANGED <<backend, fileUpload, uploader, chunkSize, pausedRef,
                 currentFileRef, chunksQueueRef, uploadedChunksRef,
                 totalChunksRef, timers, flights>>

\* the FileUploadChunkedV3 page offers the call `call` of the hook: the
\* file input and the buttons it renders and enables in this state
Offered(call) ==
  CASE call = "initializeUpload" ->
         state.status \notin {"uploading", "initiating"}
    [] call = "startUpload" ->
         state.status = "idle" /\ state.uploadId # 0 /\ currentFileRef # 0
    [] call = "pauseUpload" -> state.status = "uploading"
    [] call = "resumeUpload" -> state.status = "paused"
    [] call = "cancelUpload" -> state.status \in {"uploading", "paused"}
    [] call = "completeUpload" ->
         state.status = "completed" /\ state.uploadId # 0

\* the calls and the events of the hook, for files of the sizes `sizes`:
\* the calls the page offers (`page`), or any call in any state
HookSteps(sizes, page) ==
  \/ \E fileSize \in sizes :
        /\ page => Offered("initializeUpload")
        /\ hook_initializeUpload(fileSize)
  \/ \E ok \in BOOLEAN : hook_initializeUploadSettles(ok)
  \/ (page => Offered("startUpload")) /\ hook_startUpload
  \/ uploadNextChunk
  \/ \E i \in DOMAIN flights, ok \in BOOLEAN, arrived \in BOOLEAN :
        uploadNextChunkSettles(i, ok, arrived)
  \/ (page => Offered("pauseUpload")) /\ hook_pauseUpload
  \/ (page => Offered("resumeUpload")) /\ hook_resumeUpload
  \/ (page => Offered("cancelUpload")) /\ hook_cancelUpload
  \/ (page => Offered("completeUpload")) /\ hook_completeUpload
  \/ \E ok \in BOOLEAN : hook_completeUploadSettles(ok)

\* -------------------------------------------------------- ChunkedUploader
\* The component of the ChunkedUpload page.  Its handlers are made anew at
\* every render and see isPaused, chunkUploadId and filesProgress as they
\* were at the render that made them: a run of handleChunkedUpload carries
\* these values with it.  What follows a settled promise without another
\* await in between (the finally, Promise.race, the next turn of
\* processQueue, the catch) is part of the step in which it settles.
\* Math.ceil(chunkedFile.size / chunkSize) of the file of the model
UploaderTotal == Ceil(MaxTotal * DefaultChunkSize + 1, DefaultChunkSize)

\* `retryCount === maxRetries` without the throw
GivesUp_Never(retryCount) == FALSE

\* `if (retryCount === maxRetries) throw error`
GivesUp(retryCount) == retryCount = maxRetries

\* the inner while of processQueue with no `activeUploads.length <
\* concurrencyLimit`
Room_Unlimited(run) == Len(run.uploadQueue)

\* how many indices the inner while of processQueue takes from uploadQueue
Room(run) ==
  Min({Len(run.uploadQueue),
       run.concurrencyLimit - Cardinality(run.activeUploads)})

\* processQueue from the top of its outer while to the next await, and
\* what handleChunkedUpload does when processQueue returns or throws
processQueue(run) ==
  IF run.isPaused
  THEN [run EXCEPT !.pc = "paused"]
  ELSE LET taken == SubSeq(run.uploadQueue, 1, Room(run))
           left == SubSeq(run.uploadQueue, Room(run) + 1,
                          Len(run.uploadQueue))
           active == run.activeUploads \cup SetOf(taken)
       IN [run EXCEPT !.uploadQueue = left,
                      !.activeUploads = active,
                      !.dispatched = @ \o taken,
                      !.pc = IF left = <<>> /\ active = {}
                             THEN "completing" ELSE "uploading"]

\* handleChunkedUpload once fileId is known, to its first await
Begin(run, fileId) ==
  processQueue([run EXCEPT
     !.fileId = fileId,
     !.uploadQueue = SelectSeq([i \in 1..UploaderTotal |-> i - 1],
                               LAMBDA i : i \notin SetOf(run.uploadedChunks)),
     !.pc = "uploading"])

\* a promise of the run r has settled: the run becomes `next`, the chunks
\* it has dispatched are posted, and where handleChunkedUpload goes on or
\* ends with it, its updateProgress, setIsUploading and resetUploadState
\* are applied to the state `base`
Continue(r, next, rest, base) ==
  LET before == IF r \in DOMAIN runs THEN SetOf(runs[r].dispatched) ELSE {}
      posted == {[run |-> r, chunkIndex |-> i, retryCount |-> 0,
                  waiting |-> FALSE, aborted |-> FALSE, posts |-> 1,
                  delay |-> 0] : i \in SetOf(next.dispatched) \ before}
      shown == IF next.fileId # 0 /\ (r \notin DOMAIN runs \/ runs[r].fileId = 0)
               THEN [base EXCEPT !.chunkUploadId = next.fileId,
                                 !.status = "uploading"]
               ELSE base
  IN /\ runs' = [k \in DOMAIN runs \cup {r} |->
                   IF k = r THEN next ELSE runs[k]]
     /\ attempts' = rest \cup posted
     /\ ui' = CASE r \in DOMAIN runs /\ runs[r].pc = next.pc -> shown
                [] next.pc = "paused" ->
                     [shown EXCEPT !.status = "paused", !.isUploading = FALSE]
                [] next.pc = "failed" ->
                     [shown EXCEPT !.status = "error", !.isUploading = FALSE]
                [] next.pc = "completed" ->
                     [shown EXCEPT !.status = "completed",
                                   !.chunkUploadId = 0, !.chunkedFile = FALSE]
                [] OTHER -> shown

\* handleChunkedUpload, made at a render with the state `seen`, to its
\* first await; `base` is the state it is called in
handleChunkedUpload(seen, base, concurrencyLimit) ==
  LET r == Len(runs) + 1
      run == [isPaused |-> seen.isPaused,
              uploadedChunks |-> seen.uploadedChunks,
              concurrencyLimit |-> concurrencyLimit,
              fileId |-> 0, uploadQueue |-> <<>>, activeUploads |-> {},
              dispatched |-> <<>>, pc |-> "starting"]
  IN /\ r <= MaxRuns
     /\ Continue(r, IF seen.chunkUploadId = 0 THEN run
                    ELSE Begin(run, seen.chunkUploadId),
                 attempts,
                 [base EXCEPT !.isUploading = TRUE, !.isPaused = FALSE])

\* the Start Upload button
ui_handleChunkedUpload(concurrencyLimit) ==
  /\ ~ ui.isUploading
  /\ ui.chunkedFile
  /\ handleChunkedUpload(ui, ui, concurrencyLimit)
  /\ UNCHANGED <<backend, fileUpload, hook, network>>

\* the POST /start of the run r is answered with a new fileId (`ok`), or
\* fails
handleChunkedUploadStarted(r, ok) ==
  /\ r \in DOMAIN runs
  /\ runs[r].pc = "starting"
  /\ IF ok
     THEN /\ network' = [network EXCEPT !.started = @ + 1]
          /\ Continue(r, Begin(runs[r], network.started + 1), attempts, ui)
     ELSE /\ Continue(r, [runs[r] EXCEPT !.pc = "failed"], attempts, ui)
          /\ UNCHANGED network
  /\ UNCHANGED <<backend, fileUpload, hook>>

\* an onUploadProgress event of the request of the attempt a
onUploadProgress(a) ==
  /\ a \in attempts
  /\ ~ a.waiting
  /\ ui' = [ui EXCEPT !.status = "uploading",
                      !.uploadedChunks =
                         Append(runs[a.run].uploadedChunks, a.chunkIndex)]
  /\ UNCHANGED <<backend, fileUpload, hook, runs, attempts, network>>

\* the run of the attempt a when the promise of a has settled: fulfilled
\* (`ok`) or rejected
Settled(a, ok) ==
  LET run == [runs[a.run] EXCEPT !.activeUploads = @ \ {a.chunkIndex}]
  IN IF runs[a.run].pc # "uploading" THEN run
     ELSE IF ok THEN processQueue(run)
     ELSE [run EXCEPT !.pc = "failed"]

\* the axios.post of the attempt a is answered: the server has accepted
\* the chunk (`ok`), or the request has failed
uploadChunkWithRetrySettles(a, ok) ==
  /\ a \in attempts
  /\ ~ a.waiting
  /\ IF ok
     THEN /\ network' = [network EXCEPT !.accepted = @ \cup {a.chunkIndex}]
          /\ Continue(a.run, Settled(a, TRUE), attempts \ {a}, ui)
     ELSE /\ network.failures < MaxFailures
          /\ network' = [network EXCEPT !.failures = @ + 1]
          /\ IF GivesUp(a.retryCount)
             THEN Continue(a.run, Settled(a, FALSE), attempts \ {a}, ui)
             ELSE /\ attempts' = (attempts \ {a}) \cup
                       {[a EXCEPT !.retryCount = @ + 1, !.waiting = TRUE,
                                  !.delay = (2 ^ (a.retryCount + 1)) * 1000]}
                  /\ UNCHANGED <<ui, runs>>
  /\ UNCHANGED <<backend, fileUpload, hook>>

\* the setTimeout(resolve, delay) of the attempt a fires: the while of
\* uploadChunkWithRetry goes round and posts again, the request is
\* rejected at once when the controller has been aborted
uploadChunkWithRetryRetries(a) ==
  /\ a \in attempts
  /\ a.waiting
  /\ IF a.retryCount > maxRetries \/ a.aborted
     THEN Continue(a.run, Settled(a, FALSE), attempts \ {a}, ui)
     ELSE /\ attempts' = (attempts \ {a}) \cup
               {[a EXCEPT !.waiting = FALSE, !.posts = @ + 1]}
          /\ UNCHANGED <<ui, runs>>
  /\ UNCHANGED <<backend, fileUpload, hook, network>>

\* the POST /complete of the run r is answered: with a finalPath (`ok`),
\* which the server gives when it has every chunk, or with an error
handleChunkedUploadCompletes(r, ok) ==
  /\ r \in DOMAIN runs
  /\ runs[r].pc = "completing"
  /\ ok => network.accepted = 0..(UploaderTotal - 1)
  /\ Continue(r, [runs[r] EXCEPT !.pc = IF ok THEN "completed"
                                       ELSE "failed"], attempts, ui)
  /\ UNCHANGED <<backend, fileUpload, hook, network>>

\* the Pause Upload button: the requests in flight are aborted and reject
\* with a CanceledError, the controllers of the attempts that wait for
\* their retry are aborted too
ui_pauseUpload ==
  LET cancelled == {a \in attempts : ~ a.waiting}
      hit == {a.run : a \in cancelled}
  IN /\ ui.isUploading
     /\ ~ ui.isPaused
     /\ attempts' = {[a EXCEPT !.aborted = TRUE] : a \in attempts \ cancelled}
     /\ runs' = [r \in DOMAIN runs |->
                  LET run == [runs[r] EXCEPT !.activeUploads = @ \
                                {a.chunkIndex : a \in {b \in cancelled :
                                                        b.run = r}}]
                  IN IF r \in hit /\ runs[r].pc = "uploading"
                     THEN [run EXCEPT !.pc = "failed"] ELSE run]
     /\ ui' = IF \E r \in hit : runs[r].pc = "uploading"
              THEN [ui EXCEPT !.isPaused = TRUE, !.status = "error",
                              !.isUploading = FALSE]
              ELSE [ui EXCEPT !.isPaused = TRUE]
     /\ UNCHANGED <<backend, fileUpload, hook, network>>

\* the Resume Upload button, to `await axios.get(.. /status/ ..)`
ui_resumeUpload ==
  /\ ui.isUploading
  /\ ui.isPaused
  /\ ui.chunkedFile
  /\ Len(network.resumes) + Len(runs) < MaxRuns
  /\ network' = [network EXCEPT !.resumes = Append(@, ui)]
  /\ UNCHANGED <<backend, fileUpload, hook, ui, runs, attempts>>

\* resumeUpload after the await: the server knows the upload (`ok`) and
\* handleChunkedUpload is called, or the request has failed
ui_resumeUploadSettles(ok, concurrencyLimit) ==
  /\ network.resumes # <<>>
  /\ network' = [network EXCEPT !.resumes = Tail(@)]
  /\ ok => Head(network.resumes).chunkUploadId # 0
  /\ IF ok
     THEN handleChunkedUpload(Head(network.resumes), ui, concurrencyLimit)
     ELSE /\ ui' = [ui EXCEPT !.status = "error", !.isUploading = FALSE]
          /\ UNCHANGED <<runs, attempts>>
  /\ UNCHANGED <<backend, fileUpload, hook>>

\* ---------------------------------------------------- FileUploadController
\* The chunked upload of the upload controller (the class whose mergeChunks
\* returns a Promise).  Its handlers use the synchronous calls of fs: a
\* handler runs in one step up to `await this.mergeChunks(..)`, and
\* mergeChunks runs in that step up to its `await new Promise(..)`.
\* POST upload/chunk/start
startChunkedUpload(fileName, totalChunks) ==
  LET fileId == Cardinality(DOMAIN controller.uploadDir) + 1
      metadata == [fileName |-> fileName, totalChunks |-> totalChunks,
                   uploadedChunks |-> <<>>, status |-> "started"]
  IN /\ fileId \in FileIds
     /\ controller' = [controller EXCEPT
          !.uploadDir = Put(@, fileId, [metadata |-> metadata,
                                        chunks |-> <<>>]),
          !.reply = [Ok("chunk/start", fileId) EXCEPT
                       !.message = "Chunked upload started"]]
     /\ UNCHANGED <<backend, client, uploadBaseDir, uploadDirectory>>

\* POST upload/chunk/upload and POST upload/chunk/upload-memory (`op`).  The
\* chunk is put at chunk-<chunkIndex> (renameSync of the temp file, or
\* writeFileSync of the buffer) before the metadata is read.  With the
\* chunk that makes uploadedChunks as long as totalChunks, mergeChunks
\* sorts the indices, creates the write stream and gives it the chunk
\* files one after the other: it throws at the first file that is not
\* there (its catch unlinks the final file, the handler answers 'Failed to
\* merge chunks'), and it ends the stream and awaits its Promise otherwise.
FileUploadController_uploadChunk(op, fileId, chunkIndex, data) ==
  LET dir == controller.uploadDir[fileId]
      metadata == dir.metadata
      stored == Put(dir.chunks, chunkIndex, data)
      uploadedChunks == Append(metadata.uploadedChunks, chunkIndex)
      isComplete == Len(uploadedChunks) = metadata.totalChunks
      sortedChunks == SortNumeric(SetOf(uploadedChunks))
      found == {i \in 1..Len(sortedChunks) :
                  \A j \in 1..i : sortedChunks[j] \in DOMAIN stored}
      written == [i \in found |-> stored[sortedChunks[i]]]
      ended == Len(written) = Len(sortedChunks)
      merge == [fileName |-> metadata.fileName, indices |-> sortedChunks,
                written |-> written, ended |-> ended, flushed |-> FALSE,
                awaiting |-> ended]
  IN /\ controller' =
          IF fileId \notin DOMAIN controller.uploadDir
          THEN [controller EXCEPT
                  !.reply = Error(op, fileId, "Upload session not found")]
          ELSE IF chunkIndex \in SetOf(metadata.uploadedChunks)
          THEN [controller EXCEPT
                  !.uploadDir[fileId].chunks = Remove(stored, chunkIndex),
                  !.reply = [Ok(op, fileId) EXCEPT
                               !.message = "already uploaded",
                               !.chunkIndex = chunkIndex]]
          ELSE IF ~ isComplete
          THEN [controller EXCEPT
                  !.uploadDir[fileId].chunks = stored,
                  !.uploadDir[fileId].metadata.uploadedChunks =
                     uploadedChunks,
                  !.reply = [Ok(op, fileId) EXCEPT
                               !.message = "uploaded",
                               !.chunkIndex = chunkIndex]]
          ELSE [controller EXCEPT
                  !.uploadDir[fileId].chunks = stored,
                  !.uploadDir[fileId].metadata.uploadedChunks =
                     uploadedChunks,
                  !.merges = Put(@, fileId, merge),
                  !.finalDir = IF ended THEN @
                               ELSE Remove(@, metadata.fileName),
                  !.reply = IF ended THEN NoResponse
                            ELSE Error(op, fileId,
                                       "Failed to merge chunks")]
     /\ UNCHANGED <<backend, client, uploadBaseDir, uploadDirectory>>

\* The write stream of a mergeChunks call opens the final file and writes
\* what it was given (`ok`); where it was ended it emits 'finish', whose
\* listener `() => resolve` returns the function and does not call it: the
\* Promise stays pending.  Or the stream of a call that awaits fails
\* (`~ ok`): 'error' rejects the Promise, the catch of mergeChunks unlinks
\* the final file and the handler answers 'Failed to merge chunks'.
mergeChunksStream(fileId, ok) ==
  LET merge == controller.merges[fileId]
  IN /\ fileId \in DOMAIN controller.merges
     /\ ~ merge.flushed
     /\ ok \/ merge.awaiting
     /\ controller' =
          IF ok
          THEN [controller EXCEPT
                  !.finalDir = Put(@, merge.fileName, merge.written),
                  !.merges[fileId].flushed = TRUE,
                  !.reply = NoResponse]
          ELSE [controller EXCEPT
                  !.finalDir = Remove(@, merge.fileName),
                  !.merges[fileId].flushed = TRUE,
                  !.merges[fileId].awaiting = FALSE,
                  !.reply = Error("chunk/upload", fileId,
                                  "Failed to merge chunks")]
     /\ UNCHANGED <<backend, client, uploadBaseDir, uploadDirectory>>

\* ------------------------------------------------------ FileUploadService
\* initializeUpload and uploadChunk keep their files in uploadBaseDir and
\* use the callback calls of fs, none of which they wait for: a call
\* returns with its fs operations due, and each operation is done and its
\* callback run in a step of its own, in any order.  `uploadBaseDir` holds
\* the metadata file <uploadId>.json of one upload (<<>>: no such file), the
\* indices of its chunk files, the operations that are due, and as history
\* the totalChunks of initializeUpload, the indices uploadChunk was called
\* with and the number of assembleFile calls.  A callback that gets an
\* error throws it, which nothing catches: the process is gone (crashed).
FileUploadService_initializeUpload(totalChunks) ==
  /\ uploadBaseDir.totalChunks = 0
  /\ uploadBaseDir' = [uploadBaseDir EXCEPT
       !.totalChunks = totalChunks,
       !.due = @ \cup {[op |-> "writeInfo", chunkIndex |-> 0,
                        uploadedChunks |-> 0]}]
  /\ UNCHANGED <<backend, client, controller, uploadDirectory>>

FileUploadService_uploadChunk(chunkIndex) ==
  /\ uploadBaseDir.totalChunks > 0
  /\ ~ uploadBaseDir.crashed
  /\ chunkIndex \notin uploadBaseDir.called
  /\ uploadBaseDir' = [uploadBaseDir EXCEPT
       !.called = @ \cup {chunkIndex},
       !.due = @ \cup {[op |-> "writeChunk", chunkIndex |-> chunkIndex,
                        uploadedChunks |-> 0],
                       [op |-> "readFile", chunkIndex |-> chunkIndex,
                        uploadedChunks |-> 0]}]
  /\ UNCHANGED <<backend, client, controller, uploadDirectory>>

\* The operation `d` is done and its callback runs: the metadata file of
\* initializeUpload or the chunk file of uploadChunk is written; the
\* readFile callback of uploadChunk gets the metadata, adds one to
\* uploadedChunks, asks for the metadata to be written and calls
\* assembleFile when the number is totalChunks; the metadata is written;
\* and the readFile and unlink calls of assembleFile (taken together) find
\* the chunk files, which are removed with the metadata file.
fsCallback(d) ==
  LET metadata == uploadBaseDir.metadata
      uploadedChunks == metadata.uploadedChunks + 1
      isComplete == uploadedChunks = metadata.totalChunks
      expected == 0 .. (uploadBaseDir.totalChunks - 1)
      missing ==
        \/ d.op = "readFile" /\ metadata = <<>>
        \/ d.op = "assembleFile" /\ ~ (expected \subseteq uploadBaseDir.chunks)
  IN /\ d \in uploadBaseDir.due
     /\ ~ uploadBaseDir.crashed
     /\ uploadBaseDir' =
          IF missing
          THEN [uploadBaseDir EXCEPT !.due = @ \ {d}, !.crashed = TRUE]
          ELSE CASE d.op = "writeInfo" ->
                 [uploadBaseDir EXCEPT
                    !.due = @ \ {d},
                    !.metadata = [uploadedChunks |-> 0,
                                  totalChunks |-> uploadBaseDir.totalChunks]]
            [] d.op = "writeChunk" ->
                 [uploadBaseDir EXCEPT
                    !.due = @ \ {d}, !.chunks = @ \cup {d.chunkIndex}]
            [] d.op = "readFile" ->
                 [uploadBaseDir EXCEPT
                    !.due = (@ \ {d})
                       \cup {[op |-> "writeFile",
                              chunkIndex |-> d.chunkIndex,
                              uploadedChunks |-> uploadedChunks]}
                       \cup (IF isComplete
                             THEN {[op |-> "assembleFile",
                                    chunkIndex |-> d.chunkIndex,
                                    uploadedChunks |-> uploadedChunks]}
                             ELSE {}),
                    !.assembled = IF isComplete THEN @ + 1 ELSE @]
            [] d.op = "writeFile" ->
                 [uploadBaseDir EXCEPT
                    !.due = @ \ {d},
                    !.metadata = [uploadedChunks |-> d.uploadedChunks,
                                  totalChunks |-> uploadBaseDir.totalChunks]]
            [] d.op = "assembleFile" ->
                 [uploadBaseDir EXCEPT
                    !.due = @ \ {d}, !.chunks = @ \ expected,
                    !.metadata = <<>>]
     /\ UNCHANGED <<backend, client, controller, uploadDirectory>>

\* handleChunkUpload keeps the chunks of an identifier in uploadDirectory
\* and awaits the promise calls of fs.  `uploadDirectory` holds the chunk
\* numbers whose file is there, the calls with their position and locals,
\* and as history the number of mergeChunks calls.
\* handleChunkUpload up to `await fs.promises.writeFile(chunkPath, ..)`
handleChunkUpload(chunkNumber, totalChunks) ==
  /\ Len(uploadDirectory.calls) < NumProcs
  /\ uploadDirectory' = [uploadDirectory EXCEPT
       !.calls = Append(@, [pc |-> "writeFile", chunkNumber |-> chunkNumber,
                            totalChunks |-> totalChunks, i |-> 0])]
  /\ UNCHANGED <<backend, client, controller, uploadBaseDir>>

\* the chunk file of the call `c` is written, which the file system does
\* before the call is told
writeFileDone(c) ==
  /\ c \in DOMAIN uploadDirectory.calls
  /\ uploadDirectory.calls[c].pc = "writeFile"
  /\ uploadDirectory' = [uploadDirectory EXCEPT
       !.calls[c].pc = "written",
       !.chunks = @ \cup {uploadDirectory.calls[c].chunkNumber}]
  /\ UNCHANGED <<backend, client, controller, uploadBaseDir>>

\* handleChunkUpload after its await: checkAllChunksUploaded, and
\* mergeChunks up to the `await fs.promises.readFile(chunkPath)` of its
\* first chunk, or the return of 'Chunk uploaded successfully'
handleChunkUploadWritten(c) ==
  LET call == uploadDirectory.calls[c]
      allChunksUploaded == 1..call.totalChunks \subseteq uploadDirectory.chunks
  IN /\ c \in DOMAIN uploadDirectory.calls
     /\ call.pc = "written"
     /\ uploadDirectory' =
          IF allChunksUploaded
          THEN [uploadDirectory EXCEPT
                  !.calls[c].pc = IF call.totalChunks = 0 THEN "finish"
                                  ELSE "readFile",
                  !.calls[c].i = 1,
                  !.merges = @ + 1]
          ELSE [uploadDirectory EXCEPT !.calls[c].pc = "returned"]
     /\ UNCHANGED <<backend, client, controller, uploadBaseDir>>

\* mergeChunks of the call `c` after an await: readFile has read chunk i,
\* which is written to the stream, up to `await fs.promises.unlink(..)`;
\* unlink has removed chunk i, up to the readFile of the next chunk or to
\* the Promise that awaits 'finish'; the stream has finished.  readFile and
\* unlink reject when the file is not there, and mergeChunks with them.
mergeChunksSettles(c) ==
  LET call == uploadDirectory.calls[c]
      there == call.i \in uploadDirectory.chunks
  IN /\ c \in DOMAIN uploadDirectory.calls
     /\ call.pc \in {"readFile", "unlink", "finish"}
     /\ uploadDirectory' =
          CASE call.pc = "finish" ->
                 [uploadDirectory EXCEPT !.calls[c].pc = "merged"]
            [] call.pc # "finish" /\ ~ there ->
                 [uploadDirectory EXCEPT !.calls[c].pc = "rejected"]
            [] call.pc = "readFile" /\ there ->
                 [uploadDirectory EXCEPT !.calls[c].pc = "unlink"]
            [] call.pc = "unlink" /\ there ->
                 [uploadDirectory EXCEPT
                    !.chunks = @ \ {call.i},
                    !.calls[c].pc = IF call.i < call.totalChunks
                                    THEN "readFile" ELSE "finish",
                    !.calls[c].i = call.i + 1]
     /\ UNCHANGED <<backend, client, controller, uploadBaseDir>>

\* ------------------------------------------------------------ the requests
\* The handlers, by the requests `P` that run them, the sessions `ids` they
\* name and the values they carry.
\* the totalChunks a request on session f carries: the one the session was
\* started with when the client is `honest`, any other as well when not
Carried(f, honest) ==
  IF honest /\ f \in DOMAIN activeUploads
  THEN {activeUploads[f].totalChunks}
  ELSE IF honest THEN StartTotals
  ELSE TotalArgs

\* `track`: whether the history of the sessions' activity is kept
StartSteps(P, ids, track) ==
  \/ \E p \in P, fileName \in StartNames, fileSize \in StartSizes,
        totalChunks \in StartTotals, storageMethod \in {"disk"} :
        /\ nextId + 1 \in ids
        /\ StartCall(p, fileName, fileSize, totalChunks, storageMethod)
  \/ \E p \in P : StartMkdir(p, track)
  \/ \E p \in P : StartSave(p)

ResumeSteps(P, ids) ==
  \/ \E p \in P, f \in ids, fileName \in FileNames,
        fileSize \in FileSizes, totalChunks \in TotalArgs,
        storageMethod \in StorageMethods :
        ResumeCall(p, f, fileName, fileSize, totalChunks, storageMethod)
  \/ \E p \in P : ResumeMkdir(p)
  \/ \E p \in P : ResumeSave(p)
  \/ \E p \in P : ResumeAccess(p)
  \/ \E p \in P : ResumeStatus(p)

\* `track`: whether the history of the sessions' activity is kept
StatusSteps(P, ids, track) ==
  \/ \E p \in P, f \in ids : GetStatusCall(p, f)
  \/ \E p \in P : GetStatusAccess(p, track)
  \/ \E p \in P : GetStatusRead(p, track)

\* `track`: whether the history of the uploads (sent, acked, lastActivity)
\* is kept
UploadSteps(P, ids, indices, honest, payloads, track) ==
  \/ \E p \in P, f \in ids, chunkIndex \in indices, data \in payloads :
        \E totalChunks \in Carried(f, honest) :
           UploadCall(p, f, chunkIndex, totalChunks, data)
  \/ \E p \in P : UploadAccess(p, track)
  \/ \E p \in P : UploadMkdir(p)
  \/ \E p \in P : UploadWrite(p, track)
  \/ \E p \in P : UploadSave(p, track)

CompleteSteps(P, ids, names, honest) ==
  \/ \E p \in P, f \in ids, fileName \in names :
        \E totalChunks \in Carried(f, honest) :
           CompleteCall(p, f, fileName, totalChunks)
  \/ \E p \in P : CompleteReaddir(p)
  \/ \E p \in P : mergeChunksStreaming(p)
  \/ \E p \in P : CompleteRm(p)
  \/ \E p \in P : CompleteSave(p)

CleanupSteps == CleanupStart \/ CleanupAccess \/ CleanupRm \/ CleanupSave

\* the requests to the UploadController (v3)
PoolSteps(P, ids, names, payloads) ==
  \/ \E fileName \in names, fileSize \in StartSizes,
        totalChunks \in StartTotals :
        /\ nextId + 1 \in ids
        /\ initiateUpload(fileName, fileSize, totalChunks)
  \/ \E uploadId \in ids, chunkIndex \in IndexArgs, data \in payloads :
        uploadChunk(uploadId, chunkIndex, data)
  \/ \E uploadId \in ids : getUploadStatus(uploadId)
  \/ \E p \in P, uploadId \in ids : completeUpload(p, uploadId)
  \/ \E p \in P : writeStream(p)
  \/ \E p \in P : completeUploadFinish(p)
  \/ \E uploadId \in ids : cancelUpload(uploadId)

OneSession == {Min(FileIds)}

OneProc == {Min(Procs)}

OnePayload == {"x"}

\* ------------------------------------------------------------------- Spec
\* The upload path: a session is started, its chunks are uploaded and it is
\* completed by concurrent requests, and a merge may fail on the disk.
Next ==
  \/ StartSteps(Procs, OneSession, FALSE)
  \/ UploadSteps(Procs, OneSession, IndexArgs, FALSE, Payloads, FALSE)
  \/ CompleteSteps(Procs, OneSession, StartNames, FALSE)
  \/ \E p \in Procs : MergeIOError(p)

Spec == Init /\ [][Next]_vars

\* ----------------------------------------------------------- SpecFinalize
\* Concurrent completeChunkUpload calls on a session that has all its chunks.
FullSession(fileName, totalChunks) ==
  [NewUpload(fileName, Min(StartSizes), totalChunks, "disk", 0)
     EXCEPT !.uploadedChunks = SortNumeric(0 .. (totalChunks - 1))]

InitFinalize ==
  \E fileName \in StartNames, totalChunks \in StartTotals :
    \E data \in [0 .. (totalChunks - 1) -> Payloads] :
      LET f == Min(FileIds)
          files == [name \in {getChunkFilename(i) : i \in DOMAIN data} |->
                      data[parseInt(name)]]
          uploads == Put(<<>>, f, FullSession(fileName, totalChunks))
      IN /\ isInitialized = TRUE
         /\ activeUploads = uploads
         /\ detached = <<>>
         /\ chunkDirs = Put(<<>>, f, files)
         /\ finalFiles = <<>>
         /\ statusFile = [exists |-> TRUE, content |-> Stringify(uploads)]
         /\ nextId = f
         /\ clock = 0
         /\ requests = [p \in Procs |-> NoLocals]
         /\ cleaner = NoCleaner
         /\ response = NoResponse
         /\ purged = {}
         /\ sent = [g \in FileIds |-> IF g = f THEN files ELSE <<>>]
         /\ acked = [g \in FileIds |-> IF g = f THEN DOMAIN data ELSE {}]
         /\ finalized = [g \in FileIds |-> 0]
         /\ restarts = 0
         /\ lastActivity = [g \in FileIds |-> {}]
         /\ uploadSessions = <<>>
         /\ chunksDir = <<>>
         /\ InitFileUpload
         /\ InitHook(DefaultChunkSize)

SpecFinalize ==
  /\ InitFinalize
  /\ [][CompleteSteps(Procs, OneSession, FileNames, TRUE)]_vars

\* ------------------------------------------------------------ SpecRestart
\* One client after the other: a session is started, uploaded to, resumed
\* and completed, and the process may die and be started again.
NextRestart ==
  \/ StartSteps(OneProc, OneSession, FALSE)
  \/ UploadSteps(OneProc, OneSession, IndexArgs, TRUE, OnePayload, TRUE)
  \/ ResumeSteps(OneProc, OneSession)
  \/ CompleteSteps(OneProc, OneSession, StartNames, TRUE)
  \/ \E p \in OneProc : MergeIOError(p)
  \/ Crash
  \/ initialize

SpecRestart == Init /\ [][NextRestart]_vars

\* ------------------------------------------------------------ SpecCleanup
\* The cleanup pass next to the requests of a client, as the hours go by.
NextCleanup ==
  \/ StartSteps(OneProc, FileIds, FALSE)
  \/ UploadSteps(OneProc, FileIds, IndexArgs, TRUE, OnePayload, FALSE)
  \/ CompleteSteps(OneProc, FileIds, StartNames, TRUE)
  \/ StatusSteps(OneProc, FileIds, FALSE)
  \/ CleanupSteps
  \/ Tick

SpecCleanup == Init /\ [][NextCleanup]_vars

\* ----------------------------------------------------------- SpecActivity
\* One session that its client writes to and asks the status of, next to
\* the cleanup pass, as the hours go by; the times of its activity are kept.
NextActivity ==
  \/ StartSteps(OneProc, OneSession, TRUE)
  \/ UploadSteps(OneProc, OneSession, IndexArgs, TRUE, OnePayload, TRUE)
  \/ StatusSteps(OneProc, OneSession, TRUE)
  \/ CleanupSteps
  \/ Tick

SpecActivity == Init /\ [][NextActivity]_vars

\* -------------------------------------------------------------- SpecOrder
\* A session of up to MaxChunks chunks of which all but one or two have been
\* uploaded, each with bytes of its own; the client uploads the others, in
\* any order, and completes.
OrderTotals == {4, MaxChunks - 1, MaxChunks}

OrderIndices == 0 .. (MaxChunks - 1)

\* the session after startChunkUpload and the uploadChunk of `stored`
PartSession(fileName, totalChunks, stored) ==
  [NewUpload(fileName, Min(StartSizes), totalChunks, "disk", 0)
     EXCEPT !.uploadedChunks = SortNumeric(stored)]

InitOrder ==
  \E fileName \in StartNames, totalChunks \in OrderTotals :
    \E late \in SUBSET (0 .. (totalChunks - 1)) :
      LET f == Min(FileIds)
          stored == (0 .. (totalChunks - 1)) \ late
          files == [name \in {getChunkFilename(i) : i \in stored} |->
                      ToString(parseInt(name))]
          uploads == Put(<<>>, f, PartSession(fileName, totalChunks, stored))
      IN /\ Cardinality(late) \in {1, 2}
         /\ isInitialized = TRUE
         /\ activeUploads = uploads
         /\ detached = <<>>
         /\ chunkDirs = Put(<<>>, f, files)
         /\ finalFiles = <<>>
         /\ statusFile = [exists |-> TRUE, content |-> Stringify(uploads)]
         /\ nextId = f
         /\ clock = 0
         /\ requests = [p \in Procs |-> NoLocals]
         /\ cleaner = NoCleaner
         /\ response = NoResponse
         /\ purged = {}
         /\ sent = [g \in FileIds |-> IF g = f THEN files ELSE <<>>]
         /\ acked = [g \in FileIds |-> IF g = f THEN stored ELSE {}]
         /\ finalized = [g \in FileIds |-> 0]
         /\ restarts = 0
         /\ lastActivity = [g \in FileIds |-> {}]
         /\ uploadSessions = <<>>
         /\ chunksDir = <<>>
         /\ InitFileUpload
         /\ InitHook(DefaultChunkSize)

NextOrder ==
  \/ UploadSteps(OneProc, OneSession, OrderIndices, TRUE, Payloads, TRUE)
  \/ CompleteSteps(OneProc, OneSession, StartNames, TRUE)

SpecOrder == InitOrder /\ [][NextOrder]_vars

\* ------------------------------------------------------------- SpecStatus
\* One client that starts, uploads, asks for the status, resumes and
\* completes, on a disk that may fail during a merge.
NextStatus ==
  \/ StartSteps(OneProc, OneSession, FALSE)
  \/ UploadSteps(OneProc, OneSession, IndexArgs, TRUE, OnePayload, FALSE)
  \/ StatusSteps(OneProc, OneSession, FALSE)
  \/ ResumeSteps(OneProc, OneSession)
  \/ CompleteSteps(OneProc, OneSession, StartNames, TRUE)
  \/ \E p \in OneProc : MergeIOError(p)

SpecStatus == Init /\ [][NextStatus]_vars

\* --------------------------------------------------------------- SpecPool
\* The UploadPoolService (v3): one session, two requests at a time.
SpecPool ==
  /\ Init
  /\ [][PoolSteps(Procs, OneSession, StartNames, Payloads)]_vars

\* -------------------------------------------------------- SpecPoolCleanup
\* The UploadPoolService (v3) and its hourly cleanup, as the hours go by.
NextPoolCleanup ==
  \/ PoolSteps(OneProc, FileIds, StartNames, OnePayload)
  \/ \E dies \in BOOLEAN : cleanupInterval(dies)
  \/ Tick

SpecPoolCleanup == Init /\ [][NextPoolCleanup]_vars

\* --------------------------------------------------------------- SpecHook
\* The useChunkedUpload hook under the FileUploadChunkedV3 page, with a file
\* of two chunks: every order of the calls the page offers and of the
\* answers to the requests of the hook.
NextHook == HookSteps({2 * DefaultChunkSize - 1}, TRUE)

SpecHook == Init /\ [][NextHook]_vars

\* -------------------------------------------------------------- SpecSplit
\* splitFileIntoChunks on files of 1 .. MaxFileSize bytes, in hooks with a
\* chunkSize of 1 .. MaxChunkSize bytes.
InitSplit == InitBackend /\ \E size \in 1..MaxChunkSize : InitHook(size)

NextSplit ==
  \/ \E fileSize \in 1..MaxFileSize : hook_initializeUpload(fileSize)
  \/ \E ok \in BOOLEAN : hook_initializeUploadSettles(ok)
  \/ hook_cancelUpload

SpecSplit == InitSplit /\ [][NextSplit]_vars

\* ----------------------------------------------------------- SpecUploader
\* The ChunkedUploader component with a file of UploaderTotal chunks: the
\* buttons it shows, and the answers and failures of its requests.
\* at most `limit` runs of handleChunkedUpload, with requests that are
\* answered as `outcomes` says: with success (TRUE), with a failure (FALSE)
RunSteps(limit, outcomes) ==
  \/ \E concurrencyLimit \in 1..MaxConcurrency :
        /\ Len(runs) < limit
        /\ ui_handleChunkedUpload(concurrencyLimit)
  \/ \E r \in 1..MaxRuns, ok \in outcomes : handleChunkedUploadStarted(r, ok)
  \/ \E a \in attempts : onUploadProgress(a)
  \/ \E a \in attempts, ok \in outcomes : uploadChunkWithRetrySettles(a, ok)
  \/ \E r \in 1..MaxRuns, ok \in BOOLEAN :
        handleChunkedUploadCompletes(r, ok)
  \/ ui_pauseUpload

NextUploader ==
  \/ RunSteps(1, BOOLEAN)
  \/ \E a \in attempts : uploadChunkWithRetryRetries(a)

SpecUploader == Init /\ [][NextUploader]_vars

\* ------------------------------------------------------------- SpecResume
\* The ChunkedUploader component when uploads are paused and taken up
\* again, with requests that do not fail by themselves.
NextResume ==
  \/ RunSteps(MaxRuns, {TRUE})
  \/ ui_resumeUpload
  \/ \E ok \in BOOLEAN, concurrencyLimit \in 1..MaxConcurrency :
        ui_resumeUploadSettles(ok, concurrencyLimit)

SpecResume == Init /\ [][NextResume]_vars

\* --------------------------------------------------------- SpecController
\* The chunked upload of the FileUploadController: one session is started
\* and chunks are uploaded, of any index and more than once, through both
\* handlers, for that session and for one that was never started.
SpecController ==
  /\ Init
  /\ [][\/ \E fileName \in FileNames, totalChunks \in StartTotals :
             /\ controller.uploadDir = <<>>
             /\ startChunkedUpload(fileName, totalChunks)
        \/ \E op \in {"chunk/upload", "chunk/upload-memory"},
              fileId \in FileIds, chunkIndex \in IndexArgs,
              data \in Payloads :
             FileUploadController_uploadChunk(op, fileId, chunkIndex, data)
        \/ \E fileId \in FileIds, ok \in BOOLEAN :
             mergeChunksStream(fileId, ok)]_vars

\* a write stream that was given its data does open its file and write it
SpecControllerFair ==
  SpecController
  /\ WF_vars(\E fileId \in FileIds : mergeChunksStream(fileId, TRUE))

\* ------------------------------------------------------------ SpecService
\* FileUploadService.uploadChunk: one upload is initialized and uploadChunk
\* is called with indices that differ, while the fs callbacks run.
SpecService ==
  /\ Init
  /\ [][\/ \E totalChunks \in 1..(MaxTotal + 1) :
             FileUploadService_initializeUpload(totalChunks)
        \/ \E chunkIndex \in IndexArgs :
             FileUploadService_uploadChunk(chunkIndex)
        \/ \E op \in {"writeInfo", "writeChunk", "readFile", "writeFile",
                     "assembleFile"},
              chunkIndex \in IndexArgs,
              uploadedChunks \in 0..(MaxTotal + 1) :
             fsCallback([op |-> op, chunkIndex |-> chunkIndex,
                         uploadedChunks |-> uploadedChunks])]_vars

\* ------------------------------------------------------------- SpecHandle
\* FileUploadService.handleChunkUpload: the requests of one client for one
\* identifier, each with the totalChunks of the file, served at a time.
SpecHandle ==
  /\ Init
  /\ [][\/ \E chunkNumber \in 1..(MaxTotal + 1),
              totalChunks \in 1..(MaxTotal + 1) :
             /\ chunkNumber <= totalChunks
             /\ \A c \in DOMAIN uploadDirectory.calls :
                  uploadDirectory.calls[c].totalChunks = totalChunks
             /\ handleChunkUpload(chunkNumber, totalChunks)
        \/ \E c \in Procs : writeFileDone(c)
        \/ \E c \in Procs : handleChunkUploadWritten(c)
        \/ \E c \in Procs : mergeChunksSettles(c)]_vars

\* -------------------------------------------------------------- SpecLimit
\* startChunkUpload at the limit: the service holds one session less than
\* maxActiveUploads, started earlier (their ids are those after the ids
\* of the sessions that are started now), and new sessions are started by
\* requests that are served at a time.
SpecLimit ==
  /\ \E uploads \in [(MaxSessions + 1) .. (MaxSessions + maxActiveUploads - 1)
                       -> {NewUpload(fileName, Min(StartSizes), 1, "disk", 0) :
                             fileName \in StartNames}] :
        /\ isInitialized = TRUE
        /\ activeUploads = uploads
        /\ detached = <<>>
        /\ chunkDirs = [f \in DOMAIN uploads |-> <<>>]
        /\ finalFiles = <<>>
        /\ statusFile = [exists |-> TRUE, content |-> Stringify(uploads)]
        /\ nextId = 0
        /\ clock = 0
        /\ requests = [p \in Procs |-> NoLocals]
        /\ cleaner = NoCleaner
        /\ response = NoResponse
        /\ purged = {}
        /\ sent = [g \in FileIds |-> <<>>]
        /\ acked = [g \in FileIds |-> {}]
        /\ finalized = [g \in FileIds |-> 0]
        /\ restarts = 0
        /\ lastActivity = [g \in FileIds |-> {}]
        /\ uploadSessions = <<>>
        /\ chunksDir = <<>>
        /\ InitFileUpload
        /\ InitHook(DefaultChunkSize)
  /\ [][StartSteps(Procs, FileIds, FALSE)]_vars

\* ------------------------------------------------------------- SpecChunks
\* The hook with any chunkSize and the v3 endpoints it calls: the hook
\* splits a file, POST /initiate gets the file's size and makes the session
\* with the totalChunks it computes, the chunks of the hook's split are sent
\* to the session of the file, and the status is asked for. One request to
\* POST /initiate is served.
SpecChunks ==
  /\ InitSplit
  /\ [][\/ \E fileSize \in 1..MaxFileSize : hook_initializeUpload(fileSize)
        \/ \E ok \in BOOLEAN : hook_initializeUploadSettles(ok)
        \/ \E fileName \in StartNames :
             /\ calls.initiate > 0
             /\ uploadSessions = <<>>
             /\ initiateUpload(fileName, currentFileRef,
                               Ceil(currentFileRef, controllerChunkSize))
        \/ \E uploadId \in FileIds, chunkIndex \in 0..MaxFileSize,
              chunkBuffer \in OnePayload :
             /\ uploadId \in DOMAIN uploadSessions
             /\ uploadSessions[uploadId].fileSize = currentFileRef
             /\ chunkIndex < Len(splitFileIntoChunks(currentFileRef,
                                                     chunkSize))
             /\ uploadChunk(uploadId, chunkIndex, chunkBuffer)
        \/ \E uploadId \in FileIds : getUploadStatus(uploadId)]_vars

\* ---------------------------------------------------------- SpecArtifacts
\* Uploads of the same file name through the ChunkUploadService and the
\* UploadPoolService, both of which merge into uploads/<fileName>: one
\* request at a time, clients that send what the session was started with,
\* and a disk that does not fail.
SpecArtifacts ==
  /\ Init
  /\ [][\/ StartSteps(OneProc, FileIds, FALSE)
        \/ UploadSteps(OneProc, FileIds, IndexArgs, TRUE, Payloads, FALSE)
        \/ CompleteSteps(OneProc, FileIds, StartNames, TRUE)
        \/ PoolSteps(OneProc, FileIds, StartNames, Payloads)]_vars

\* -------------------------------------------------------------- SpecCrash
\* Two requests at a time on the sessions of honest clients, in a process
\* that may die at any await point and be started again.
NextCrash ==
  \/ StartSteps(Procs, FileIds, FALSE)
  \/ UploadSteps(Procs, OneSession, IndexArgs, TRUE, OnePayload, FALSE)
  \/ CompleteSteps(Procs, OneSession, StartNames, TRUE)
  \/ \E p \in Procs : MergeIOError(p)
  \/ Crash
  \/ initialize

SpecCrash == Init /\ [][NextCrash]_vars

\* ===================================================================
\* The claims
\* ===================================================================
\* the request `p` takes the step
Steps(p) == requests'[p] # requests[p]

\* 0 .. T-1 for the totalChunks startChunkUpload recorded
AllIndices(upload) == 0 .. (upload.totalChunks - 1)

\* the indices of the chunk files of the session's directory
Stored(f) ==
  IF f \in DOMAIN chunkDirs
  THEN {parseInt(name) : name \in DOMAIN chunkDirs[f]}
  ELSE {}

Merging(p) == requests[p].pc \in {"co_merge", "co_rm"}

\* C2: completeChunkUpload merges a session only when the stored chunk
\* indices are exactly 0 .. T-1 for the recorded totalChunks T, and a request
\* whose totalChunks differs from T is rejected: whenever a request has got
\* past the count of the chunks and merges, it carries the recorded T and the
\* chunks it merges are those of 0 .. T-1.
C2_MergesOnlyCompleteSessions ==
  \A p \in Procs :
    (Merging(p) /\ requests[p].fileId \in DOMAIN activeUploads) =>
      LET upload == activeUploads[requests[p].fileId]
          r == requests[p]
      IN /\ r.totalChunks = upload.totalChunks
         /\ {parseInt(r.sortedChunks[i]) : i \in 1 .. Len(r.sortedChunks)}
              = AllIndices(upload)

\* C3: in every reachable state the chunk indices stored for a session and
\* those listed in its uploadedChunks are among 0 .. T-1 for the recorded
\* totalChunks T.
C3_IndicesWithinRecordedTotal ==
  \A f \in DOMAIN activeUploads :
    Stored(f) \cup SetOf(activeUploads[f].uploadedChunks)
      \subseteq AllIndices(activeUploads[f])

\* the files of the session's directory: name -> bytes
Files(dirs, f) == IF f \in DOMAIN dirs THEN dirs[f] ELSE <<>>

\* no file of the session's directory is written: none is new, none changes
NoChunkWritten(f) ==
  \A name \in DOMAIN Files(chunkDirs', f) :
     /\ name \in DOMAIN Files(chunkDirs, f)
     /\ Files(chunkDirs', f)[name] = Files(chunkDirs, f)[name]

\* C5: completeChunkUpload on a session that is missing at least one chunk
\* fails with 'Incomplete upload' and leaves the session resumable: the step
\* that has counted the chunks throws, only clears the lock, and leaves every
\* stored chunk as it is.
C5_IncompleteFailsAndStaysResumable ==
  [][\A p \in Procs :
       LET f == requests[p].fileId
       IN (/\ requests[p].pc = "co_readdir"
           /\ Steps(p)
           /\ f \in DOMAIN activeUploads
           /\ ~ (AllIndices(activeUploads[f]) \subseteq Stored(f)))
          => /\ response'.kind = "error"
             /\ response'.message = "Failed to merge file: Incomplete upload"
             /\ activeUploads' = [activeUploads EXCEPT ![f].locked = FALSE]
             /\ chunkDirs' = chunkDirs
             /\ finalFiles' = finalFiles]_vars

\* C8: while a session is locked by completeChunkUpload, no step writes a
\* chunk file into its directory or changes its uploadedChunks.
C8_NoChunkWriteWhileLocked ==
  [][\A f \in DOMAIN activeUploads :
       activeUploads[f].locked =>
         /\ NoChunkWritten(f)
         /\ f \in DOMAIN activeUploads' =>
              activeUploads'[f].uploadedChunks = activeUploads[f].uploadedChunks]_vars

\* no index twice in an array
NoRepeats(s) == \A i, j \in 1 .. Len(s) : s[i] = s[j] => i = j

\* C4: an uploadChunk that finds the chunk of its index stored returns
\* skipped = true and changes nothing (the chunk files, the session records
\* and the final files are as before), and uploadedChunks never lists an
\* index twice.
C4_DuplicateChunkIsSkipped ==
  /\ [](\A f \in DOMAIN activeUploads :
          NoRepeats(activeUploads[f].uploadedChunks))
  /\ [][\A p \in Procs :
          LET r == requests[p]
          IN (/\ r.pc = "up_access"
              /\ Steps(p)
              /\ getChunkFilename(r.chunkIndex) \in DOMAIN Files(chunkDirs, r.fileId))
             => /\ response'.op = "upload"
                /\ response'.kind = "ok"
                /\ response'.skipped
                /\ response'.chunkIndex = r.chunkIndex
                /\ requests'[p].pc = "idle"
                /\ chunkDirs' = chunkDirs
                /\ activeUploads' = activeUploads
                /\ finalFiles' = finalFiles
                /\ statusFile' = statusFile]_vars

\* C4's case: uploadChunk has just returned skipped = true for a chunk that
\* is stored and listed in uploadedChunks
C4_Witness ==
  /\ response.op = "upload"
  /\ response.skipped
  /\ response.fileId \in DOMAIN activeUploads
  /\ getChunkFilename(response.chunkIndex)
       \in DOMAIN Files(chunkDirs, response.fileId)
  /\ response.chunkIndex \in SetOf(activeUploads[response.fileId].uploadedChunks)

\* ------------------------------------------------------------------- C1
\* the requests that are inside completeChunkUpload for session f
Finalizing(f) ==
  {p \in Procs :
     /\ requests[p].pc \in {"co_readdir", "co_merge", "co_rm", "co_save"}
     /\ requests[p].fileId = f}

\* the chunks that were sent for session f, in the order of their indices
Expected(f) ==
  [i \in 1 .. Cardinality(DOMAIN sent[f]) |-> sent[f][getChunkFilename(i - 1)]]

IsPrefix(s, t) == Len(s) <= Len(t) /\ SubSeq(t, 1, Len(s)) = s

\* C1: of the concurrent completeChunkUpload calls on a session that has all
\* its chunks, one at a time is past the lock; at most one returns a
\* finalPath, and one has when all have returned and the session is gone; a
\* call that fails fails with 'Upload is already being finalized' or 'Upload
\* session not found'; each chunk is merged once, in the order of the indices.
C1_ExactlyOneFinalizes ==
  \A f \in OneSession :
    /\ Cardinality(Finalizing(f)) <= 1
    /\ finalized[f] <= 1
    /\ (response.op = "complete" /\ response.kind = "error") =>
         response.message \in {"Upload is already being finalized",
                               "Upload session not found"}
    /\ (response.op = "complete" /\ response.kind = "ok") =>
         /\ finalized[f] = 1
         /\ response.finalPath \in DOMAIN finalFiles
         /\ finalFiles[response.finalPath] = Expected(f)
    /\ Cardinality(DOMAIN finalFiles) <= 1
    /\ \A name \in DOMAIN finalFiles : IsPrefix(finalFiles[name], Expected(f))
    /\ (f \in DOMAIN activeUploads /\ Finalizing(f) = {}) =>
         /\ finalized[f] = 0
         /\ ~ activeUploads[f].locked
         /\ Stored(f) = AllIndices(activeUploads[f])
    /\ (f \notin DOMAIN activeUploads /\ Finalizing(f) = {}) =>
         /\ finalized[f] = 1
         /\ \E name \in DOMAIN finalFiles : finalFiles[name] = Expected(f)

\* C1's case: a call has been turned away as 'already being finalized' while
\* the other is merging the chunks
C1_Witness ==
  /\ response.op = "complete"
  /\ response.message = "Upload is already being finalized"
  /\ \E p \in Procs : requests[p].pc = "co_merge" /\ requests[p].currentIndex >= 1

\* ------------------------------------------------------------------- C9
\* C9: no step of the cleanup pass removes the record or the chunk directory
\* of a session that is locked.
C9_CleanupSparesLockedSessions ==
  [][\A f \in DOMAIN activeUploads :
       (activeUploads[f].locked /\ cleaner' # cleaner) =>
          /\ f \in DOMAIN activeUploads'
          /\ f \in DOMAIN chunkDirs => f \in DOMAIN chunkDirs']_vars

\* ------------------------------------------------------------------ C10
\* the step is the for-of loop of a pass running on: at the start of the
\* pass, or after an entry has been deleted
LoopRuns ==
  \/ /\ cleaner.pc = "idle"
     /\ cleaner'.pc # "idle" \/ response'.op = "cleanup"
  \/ /\ cleaner.pc \in {"cl_access", "cl_rm"}
     /\ cleaner'.cleanedCount = cleaner.cleanedCount + 1

\* the entries the loop looks at in the step
Examined ==
  {f \in DOMAIN activeUploads' :
     /\ f > cleaner.pos
     /\ cleaner'.pc = "cl_access" => f <= cleaner'.cur}

\* the time the pass took at its start
PassNow == IF cleaner.pc = "idle" THEN clock ELSE cleaner.now

Listed == SetOf(response.uploadedChunks)

\* C6: resumeChunkUpload fails for an unknown fileId and whenever fileName,
\* fileSize, totalChunks or storageMethod differs from the recorded value, and
\* a failed resume changes neither the records nor the chunks nor the status
\* file; a matching resume returns the indices of the chunks that are stored.
C6_ResumeChecksAndReports ==
  /\ []((response.op = "resume" /\ response.kind = "ok" /\ response.exists)
          => Listed = Stored(response.fileId))
  /\ [][\A p \in Procs, f \in FileIds, fileName \in FileNames,
           fileSize \in FileSizes, totalChunks \in TotalArgs,
           storageMethod \in StorageMethods :
           (/\ ResumeCall(p, f, fileName, fileSize, totalChunks, storageMethod)
            /\ \/ f \notin DOMAIN activeUploads
               \/ activeUploads[f].fileName # fileName
               \/ activeUploads[f].fileSize # fileSize
               \/ activeUploads[f].totalChunks # totalChunks
               \/ activeUploads[f].storageMethod # storageMethod)
           => /\ response'.kind = "error"
              /\ requests' = requests
              /\ activeUploads' = activeUploads
              /\ chunkDirs' = chunkDirs
              /\ statusFile' = statusFile]_vars

\* ------------------------------------------------------------------- C7
\* the immutable fields of a session record
Immutable(upload) ==
  <<upload.fileName, upload.fileSize, upload.totalChunks, upload.storageMethod>>

\* no completeChunkUpload has opened a final file yet
NothingMerged == finalFiles = <<>>

Regular(f, now) ==
  /\ lastActivity[f] # {}
  /\ \A t \in lastActivity[f] \cup {now} :
        \/ \A u \in lastActivity[f] : t <= u
        \/ \E u \in lastActivity[f] : u < t /\ t - u <= 24 * 60 * 60 * 1000

\* a getUploadStatus for f returns its answer in the step
Answered(f) ==
  /\ requests' # requests
  /\ response'.op = "status"
  /\ response'.fileId = f
  /\ response'.exists

\* an uploadChunk for f has its chunk accepted in the step
Accepted(f) ==
  \E p \in Procs : /\ requests[p].pc = "up_write"
                   /\ requests'[p].pc = "up_save"
                   /\ requests[p].fileId = f

\* C11: the step that accepts a chunk of a session and the step that answers
\* a getUploadStatus for it set the session's lastUpdated to the time of the
\* step; and a cleanup pass never removes a session that has been written to
\* or queried at least once in every 24 hours up to the start of the pass.
C11_ActivityKeepsSessionAlive ==
  [][\A f \in FileIds :
       /\ (f \in DOMAIN activeUploads' /\ (Answered(f) \/ Accepted(f))) =>
             activeUploads'[f].lastUpdated = clock
       /\ (f \in purged' /\ f \notin purged) => ~ Regular(f, cleaner.now)]_vars

\* ------------------------------------------------------------------ C12
\* a completeChunkUpload for f is in progress
Completing(f) ==
  \E p \in Procs :
    /\ requests[p].fileId = f
    /\ requests[p].pc \in {"co_readdir", "co_merge", "co_rm", "co_save"}

\* C12: in every state, after a restart that has loaded upload-status.json
\* as well, a session's locked is true only while a completeChunkUpload for
\* that session is in progress.
C12_LockedOnlyWhileCompleting ==
  \A f \in DOMAIN activeUploads : activeUploads[f].locked => Completing(f)

\* ------------------------------------------------------------------ C13
\* the completeChunkUpload of p returns an error out of mergeChunksStreaming
\* in the step
MergeFails(p) ==
  /\ requests[p].pc = "co_merge"
  /\ requests'[p].pc = "idle"
  /\ response'.op = "complete"
  /\ response'.kind = "error"

\* C13: when mergeChunksStreaming fails with an I/O error, the call returns
\* its error with the session still registered, its chunk directory in place
\* and locked = true.
C13_MergeFailureLeavesLocked ==
  [][\A p \in Procs :
       MergeFails(p) =>
         LET f == requests[p].fileId
         IN /\ f \in DOMAIN activeUploads'
            /\ f \in DOMAIN chunkDirs'
            /\ activeUploads'[f].locked]_vars

\* C13, as the service does it: when mergeChunksStreaming fails with an I/O
\* error, the call returns its error with the session unlocked (locked =
\* false) and un-merged: the record of the session is changed in nothing
\* else, no record or chunk directory is removed and no finalPath returned.
C13_MergeFailureUnlocks ==
  [][\A p \in Procs :
       MergeFails(p) =>
         LET f == requests[p].fileId
         IN /\ DOMAIN activeUploads' = DOMAIN activeUploads
            /\ \A g \in DOMAIN activeUploads :
                  /\ g = f => ~ activeUploads'[g].locked
                  /\ [activeUploads'[g] EXCEPT !.locked = FALSE]
                       = [activeUploads[g] EXCEPT !.locked = FALSE]
                  /\ g # f => activeUploads'[g] = activeUploads[g]
            /\ DOMAIN chunkDirs' = DOMAIN chunkDirs
            /\ response'.finalPath = ""
            /\ finalized' = finalized]_vars

\* C13's case: a completeChunkUpload has just returned the error of a merge
\* that failed on the disk, and its session is registered and not locked
C13_Witness ==
  /\ response.op = "complete"
  /\ response.kind = "error"
  /\ response.message = "Failed to merge file: EIO"
  /\ response.fileId \in DOMAIN activeUploads
  /\ ~ activeUploads[response.fileId].locked
  /\ \A p \in Procs : Idle(p)

\* ------------------------------------------------------------------ C14
\* the completeChunkUpload of p, past the count of the chunks, ends in the
\* step without a finalPath: it throws, or the process dies
CutShort(p) ==
  /\ requests[p].pc \in {"co_merge", "co_rm"}
  /\ requests'[p].pc = "idle"

\* C14: when a completeChunkUpload fails during the streaming or is cut short
\* by a crash, every chunk it set out to merge is still stored in the chunk
\* directory of the session.
C14_FailedMergeKeepsChunks ==
  [][\A p \in Procs :
       CutShort(p) =>
         \A i \in 1 .. Len(requests[p].sortedChunks) :
            requests[p].sortedChunks[i]
              \in DOMAIN Files(chunkDirs', requests[p].fileId)]_vars

\* ------------------------------------------------------------------ C15
\* C15: in every state, a file under the final path of a session is the
\* complete concatenation of the chunks that were sent for the session, in
\* the order of their indices: never a part of it, neither while the merge
\* is streaming nor after it has failed.
C15_FinalFileNeverPartial ==
  \A name \in DOMAIN finalFiles :
    \E f \in FileIds : /\ sent[f] # <<>>
                       /\ finalFiles[name] = Expected(f)

\* ------------------------------------------------------------------ C16
\* C16: what completeChunkUpload writes under the final path is at every
\* step of the merge the chunks sent for the session in the ascending order
\* of their indices, and when it has returned its finalPath the file is the
\* concatenation of the chunks 0 .. T-1 in that order, whatever the order of
\* their uploads and also when T >= 10.
C16_MergedInIndexOrder ==
  \A f \in OneSession :
    /\ \A name \in DOMAIN finalFiles : IsPrefix(finalFiles[name], Expected(f))
    /\ (response.op = "complete" /\ response.kind = "ok") =>
         /\ response.finalPath \in DOMAIN finalFiles
         /\ Len(finalFiles[response.finalPath]) \in OrderTotals
         /\ DOMAIN sent[f] =
              {getChunkFilename(i) :
                 i \in 0 .. (Len(finalFiles[response.finalPath]) - 1)}
         /\ finalFiles[response.finalPath] = Expected(f)

\* C16's case: a completeChunkUpload has returned the final path of a file
\* of more than 10 chunks, one of which was uploaded after a chunk of a
\* higher index, of two digits
C16_Witness ==
  /\ response.op = "complete"
  /\ response.kind = "ok"
  /\ response.finalPath \in DOMAIN finalFiles
  /\ Len(finalFiles[response.finalPath]) > 10
  /\ \E i, j \in OrderIndices :
       /\ i < j
       /\ j >= 10
       /\ getChunkFilename(j) \in DOMAIN sent[response.fileId]
       /\ sent[response.fileId][getChunkFilename(i)] \in Payloads
       /\ sent[response.fileId][getChunkFilename(j)] \notin Payloads

\* ------------------------------------------------------------------ C17
\* the startChunkUpload of session f has returned its fileId, and no chunk
\* has been sent for the session since
StartedEmpty(f) ==
  /\ f \in DOMAIN activeUploads
  /\ activeUploads[f].uploadedChunks = <<>>
  /\ \A p \in Procs : requests[p].fileId = f => Idle(p)

\* what loadUploadStatus makes of the status file as it is
Loaded ==
  IF statusFile.exists THEN ParseStatus(statusFile.content) ELSE <<>>

\* C17: when the process dies after startChunkUpload has returned the fileId
\* of a session, the restart loads that session from upload-status.json as
\* it was started, with uploadedChunks = [], whatever other startChunkUpload
\* or uploadChunk calls ran next to it.
C17_StartedSessionSurvivesCrash ==
  [][(isInitialized /\ ~ isInitialized') =>
       \A f \in FileIds :
          StartedEmpty(f) =>
            /\ f \in DOMAIN Loaded
            /\ Loaded[f] = [activeUploads[f] EXCEPT !.locked = Loaded[f].locked]
            /\ Loaded[f].uploadedChunks = <<>>]_vars

\* ------------------------------------------------------------------ C18
\* C18: the indices getUploadStatus returns, and those resumeChunkUpload
\* returns, are those of the chunks that are stored in the chunk directory
\* of the session when it returns: where the metadata list and the
\* directory differ, the directory's listing is the answer.
C18_StatusReportsStoredChunks ==
  (/\ response.op \in {"status", "resume"}
   /\ response.kind = "ok"
   /\ response.exists) =>
     SetOf(response.uploadedChunks) = Stored(response.fileId)

\* ------------------------------------------------------------------ C19
\* the completeUpload of p returns or throws in the step, the merged file
\* written
PoolFinishes(p) ==
  /\ requests[p].pc = "v3_finish"
  /\ requests'[p].pc = "idle"

\* C19: a completeUpload on a session with all chunks uploaded, once the
\* merged file is written, returns the final path, leaves no chunk of the
\* session and no session in the Map; and getUploadStatus for an uploadId
\* that is not in the Map throws 'Upload session not found'.
C19_CompleteRemovesSession ==
  [][/\ \A p \in Procs :
          PoolFinishes(p) =>
            LET uploadId == requests[p].fileId
            IN /\ response'.op = "completeUpload"
               /\ response'.kind = "ok"
               /\ response'.finalPath = requests[p].fileName
               /\ finalFiles'[response'.finalPath] = requests[p].buffer
               /\ Files(chunksDir', uploadId) = <<>>
               /\ uploadId \notin DOMAIN uploadSessions'
     /\ \A uploadId \in FileIds :
          (/\ response'.op = "getUploadStatus"
           /\ response'.fileId = uploadId
           /\ uploadId \notin DOMAIN uploadSessions) =>
             /\ response'.kind = "error"
             /\ response'.message = "Upload session not found"]_vars

\* ------------------------------------------------------------------ C20
\* the completeUpload calls for the session that are past their checks
PoolFinalizing(uploadId) ==
  {p \in Procs : /\ requests[p].pc \in {"v3_open", "v3_finish"}
                 /\ requests[p].fileId = uploadId}

\* a completeUpload for the session has run to its end: its chunk files
\* have been removed, and no call is in progress
PoolMerged(uploadId) ==
  /\ PoolFinalizing(uploadId) = {}
  /\ uploadId \in DOMAIN chunksDir
  /\ chunksDir[uploadId] = <<>>
  /\ \/ uploadId \notin DOMAIN uploadSessions
     \/ uploadSessions[uploadId].uploadedChunks # {}

\* C20: of the completeUpload calls that run at the same time on a session
\* with all chunks uploaded, one at a time is past the checks, the others
\* fail; at most one returns the final path, and one has when the calls are
\* over and the chunks merged.
C20_OneConcurrentCompleteWins ==
  \A uploadId \in FileIds :
    /\ Cardinality(PoolFinalizing(uploadId)) <= 1
    /\ finalized[uploadId] <= 1
    /\ PoolMerged(uploadId) => finalized[uploadId] = 1

\* ------------------------------------------------------------------ C21
\* C21: a run of the cleanup of the UploadPoolService leaves no session whose
\* lastActivity was more than 24 hours before the run, nor any chunk of such
\* a session: every expired session in the Map is removed by the same run.
C21_PoolCleanupRemovesExpired ==
  [][response'.op = "cleanupInterval" =>
       \A uploadId \in DOMAIN uploadSessions :
          clock - uploadSessions[uploadId].lastActivity > 24 * 60 * 60 * 1000
            => /\ uploadId \notin DOMAIN uploadSessions'
               /\ Files(chunksDir', uploadId) = <<>>]_vars

\* ------------------------------------------------------------------ C22
\* a request of the UploadController for uploadId is answered in the step
PoolAnswered(op, uploadId) ==
  /\ response'.op = op
  /\ response'.fileId = uploadId
  /\ response'.kind # "none"

\* C22: cancelUpload on a session that exists succeeds and leaves neither a
\* chunk nor the record of the session; on an unknown uploadId it throws
\* 'Upload session not found' and changes nothing; and getUploadStatus,
\* uploadChunk and completeUpload for an uploadId that is not in the Map
\* throw 'Upload session not found'.
C22_CancelRemovesSession ==
  [][\A uploadId \in FileIds :
       /\ (PoolAnswered("cancelUpload", uploadId)
            /\ uploadId \in DOMAIN uploadSessions) =>
              /\ response'.kind = "ok"
              /\ uploadId \notin DOMAIN uploadSessions'
              /\ Files(chunksDir', uploadId) = <<>>
       /\ (PoolAnswered("cancelUpload", uploadId)
            /\ uploadId \notin DOMAIN uploadSessions) =>
              /\ response'.kind = "error"
              /\ response'.message = "Upload session not found"
              /\ pool' = pool
              /\ finalFiles' = finalFiles
       /\ \A op \in {"getUploadStatus", "uploadChunk", "completeUpload"} :
            (/\ PoolAnswered(op, uploadId)
             /\ requests' = requests
             /\ uploadId \notin DOMAIN uploadSessions) =>
               /\ response'.kind = "error"
               /\ response'.message = "Upload session not found"]_vars

\* ------------------------------------------------------------------ C23
\* C23: in every session of the UploadPoolService uploadedChunks is a subset
\* of 0 .. totalChunks-1; while the session is in the Map its uploadedChunks
\* only grows and its fileName, fileSize and totalChunks do not change;
\* getUploadStatus answers isComplete = TRUE exactly when the size of
\* uploadedChunks is totalChunks, and throws 'Upload session not found' for
\* an uploadId that is not in the Map.
C23_PoolSessionInvariants ==
  [][/\ \A uploadId \in DOMAIN uploadSessions' :
          uploadSessions'[uploadId].uploadedChunks
            \subseteq 0 .. (uploadSessions'[uploadId].totalChunks - 1)
     /\ \A uploadId \in DOMAIN uploadSessions \cap DOMAIN uploadSessions' :
          LET old == uploadSessions[uploadId]
              new == uploadSessions'[uploadId]
          IN /\ old.uploadedChunks \subseteq new.uploadedChunks
             /\ new.fileName = old.fileName
             /\ new.fileSize = old.fileSize
             /\ new.totalChunks = old.totalChunks
     /\ \A uploadId \in FileIds :
          PoolAnswered("getUploadStatus", uploadId) =>
            IF uploadId \in DOMAIN uploadSessions
            THEN /\ response'.kind = "ok"
                 /\ response'.isComplete
                      <=> (Cardinality(uploadSessions[uploadId].uploadedChunks)
                             = uploadSessions[uploadId].totalChunks)
            ELSE /\ response'.kind = "error"
                 /\ response'.message = "Upload session not found"]_vars

\* getUploadStatus has answered isComplete for a session of MaxTotal chunks
\* that has them all
C23_Witness ==
  /\ response.op = "getUploadStatus"
  /\ response.kind = "ok"
  /\ response.isComplete
  /\ response.fileId \in DOMAIN uploadSessions
  /\ uploadSessions[response.fileId].totalChunks = MaxTotal
  /\ uploadSessions[response.fileId].uploadedChunks = 0 .. (MaxTotal - 1)

\* ------------------------------------------------------------------ C24
\* C24: for a file of fileSize > 0 bytes and a chunkSize > 0,
\* splitFileIntoChunks returns ceil(fileSize / chunkSize) chunks, with the
\* indices 0, 1, .. in order; chunk i holds the bytes from i * chunkSize up
\* to min((i + 1) * chunkSize, fileSize), its `size` is their number, no
\* chunk is empty, each chunk starts where the one before it ends, the
\* first at byte 0 and the last ending at fileSize.
C24_SplitCoversFile ==
  (currentFileRef # 0 /\ flights = <<>>) =>
    LET chunks == chunksQueueRef
        n == Len(chunks)
    IN /\ n * chunkSize >= currentFileRef
       /\ (n - 1) * chunkSize < currentFileRef
       /\ totalChunksRef = n
       /\ \A k \in 1..n :
            /\ chunks[k].index = k - 1
            /\ chunks[k].blob[1] = (k - 1) * chunkSize
            /\ chunks[k].blob[2] = IF k * chunkSize < currentFileRef
                                   THEN k * chunkSize ELSE currentFileRef
            /\ chunks[k].blob[1] < chunks[k].blob[2]
            /\ chunks[k].size = chunks[k].blob[2] - chunks[k].blob[1]
            /\ k > 1 => chunks[k].blob[1] = chunks[k - 1].blob[2]
       /\ chunks[1].blob[1] = 0
       /\ chunks[n].blob[2] = currentFileRef

\* a file of MaxFileSize bytes has been split into three chunks, the last
\* one shorter than chunkSize
C24_Witness ==
  /\ currentFileRef = MaxFileSize
  /\ Len(chunksQueueRef) = 3
  /\ chunksQueueRef[3].size < chunkSize
  /\ totalChunksRef = 3

\* ------------------------------------------------------------------ C27
\* C27: from the return of pauseUpload until resumeUpload is called
\* (pausedRef.current is true in between) no chunk request of the upload is
\* in flight.
C27_PausedNothingInFlight ==
  pausedRef =>
    \A i \in DOMAIN flights : flights[i].uploadId # state.uploadId

\* ------------------------------------------------------------------ C29
\* C29: the status of the hook is 'completed' only when the server has
\* completed the upload of the current uploadId.
C29_CompletedOnlyAfterComplete ==
  state.status = "completed" => state.uploadId \in server.completed

\* ------------------------------------------------------------------ C30
\* C30: once the status is 'cancelled' or 'completed', a step that is not
\* part of initializeUpload or completeUpload (a call of startUpload,
\* pauseUpload or resumeUpload, a timer callback, a chunk request that
\* settles) leaves the status as it is and sends no chunk request.
C30_TerminalStatus ==
  [][(state.status \in {"cancelled", "completed"} /\ calls' = calls) =>
       /\ state'.status = state.status
       /\ Len(flights') <= Len(flights)]_vars

\* ------------------------------------------------------------------ C25
\* the calls of uploadChunkWithRetry of the run r that have not settled
Unsettled(r) == {a \in attempts : a.run = r}

\* C25: in every run of handleChunkedUpload the chunk uploads that have been
\* dispatched and have not settled are never more than concurrencyLimit (an
\* index leaves the queue only when they are fewer), they are the
\* activeUploads of the run while it goes on, and no index is dispatched
\* twice.
C25_BoundedConcurrency ==
  \A r \in DOMAIN runs :
    /\ Cardinality(Unsettled(r)) <= runs[r].concurrencyLimit
    /\ runs[r].pc = "uploading" =>
         runs[r].activeUploads = {a.chunkIndex : a \in Unsettled(r)}
    /\ \A a \in Unsettled(r) : a.chunkIndex \in SetOf(runs[r].dispatched)
    /\ \A i, j \in DOMAIN runs[r].dispatched :
         i # j => runs[r].dispatched[i] # runs[r].dispatched[j]

\* a run with as many unsettled uploads as its concurrencyLimit allows,
\* after one of its uploads has settled and the next index was dispatched
C25_Witness ==
  \E r \in DOMAIN runs :
    /\ runs[r].concurrencyLimit = MaxConcurrency
    /\ Cardinality(Unsettled(r)) = MaxConcurrency
    /\ Len(runs[r].dispatched) = MaxConcurrency + 1

\* ------------------------------------------------------------------ C26
\* the post of the attempt a fails in the step and it was the last one
\* uploadChunkWithRetry makes
LastFails(a) ==
  /\ ~ a.waiting
  /\ a.posts = maxRetries + 1
  /\ network'.failures = network.failures + 1
  /\ a \notin attempts'

\* C26: uploadChunkWithRetry posts a chunk at most maxRetries + 1 = 4 times
\* and waits 2^k seconds before its k-th retry; when the last post of a
\* chunk fails the status of the upload becomes 'error'; and a run that
\* has failed dispatches no further index and sends no /complete.
C26_RetriesThenError ==
  [][/\ \A a \in attempts :
          /\ a.posts <= 4
          /\ a.waiting => /\ a.retryCount = a.posts
                          /\ a.delay = (2 ^ a.posts) * 1000
          /\ LastFails(a) => ui'.status = "error"
     /\ \A r \in DOMAIN runs :
          runs[r].pc = "failed" =>
            /\ runs'[r].pc = "failed"
            /\ runs'[r].dispatched = runs[r].dispatched]_vars

\* ------------------------------------------------------------------ C28
\* C28: a run of handleChunkedUpload leaves out of its queue only indices
\* that the server has accepted, and while its /complete request is on the
\* way the server has every chunk of the file.
C28_ResumeUploadsMissing ==
  \A r \in DOMAIN runs :
    /\ runs[r].pc \in {"uploading", "completing"} =>
         SetOf(runs[r].uploadedChunks) \subseteq network.accepted
    /\ runs[r].pc = "completing" =>
         network.accepted = 0 .. (UploaderTotal - 1)

\* ------------------------------------------------------------------ C31
\* C31: every request of the FileUploadController's chunk/upload is
\* answered: a handler that awaits mergeChunks, the write stream of which
\* does its work, has answered some time later.
C31_LastChunkIsAnswered ==
  \A fileId \in FileIds :
    (/\ fileId \in DOMAIN controller.merges
     /\ controller.merges[fileId].awaiting)
    ~> ~ (/\ fileId \in DOMAIN controller.merges
          /\ controller.merges[fileId].awaiting)

\* ------------------------------------------------------------------ C32
\* C32: a request of chunk/upload or chunk/upload-memory that is answered
\* 'already uploaded' leaves the chunk files and the metadata of the
\* session as they were, and a merge finds the file of every index that
\* the metadata records.
C32_ReuploadKeepsChunk ==
  /\ [][controller'.reply.message = "already uploaded" =>
          controller'.uploadDir = controller.uploadDir]_vars
  /\ [](\A fileId \in DOMAIN controller.merges :
          controller.merges[fileId].ended)

\* ------------------------------------------------------------------ C33
\* C33: mergeChunks is called only with the indices 0 .. totalChunks - 1 of
\* the totalChunks stored at chunk/start, and gives the write stream the
\* chunks in ascending order of their indices.
C33_MergeOnlyOfAllIndices ==
  \A fileId \in DOMAIN controller.merges :
    LET merge == controller.merges[fileId]
        metadata == controller.uploadDir[fileId].metadata
    IN /\ SetOf(merge.indices) = 0 .. (metadata.totalChunks - 1)
       /\ \A i \in 1..Len(merge.indices), j \in 1..Len(merge.indices) :
            i < j => merge.indices[i] < merge.indices[j]

\* ------------------------------------------------------------------ C34
\* C34: when the callbacks of the uploadChunk calls made so far, each with
\* an index of its own, have all run, the metadata file records as many
\* uploadedChunks as there were calls, and assembleFile has been called
\* once if the calls are totalChunks or more and not at all otherwise.
C34_EveryChunkIsCounted ==
  LET k == Cardinality(uploadBaseDir.called)
  IN (uploadBaseDir.due = {} /\ ~ uploadBaseDir.crashed) =>
       /\ uploadBaseDir.metadata # <<>> =>
            uploadBaseDir.metadata.uploadedChunks = k
       /\ uploadBaseDir.assembled =
            IF uploadBaseDir.totalChunks > 0 /\ k >= uploadBaseDir.totalChunks
            THEN 1 ELSE 0

\* ------------------------------------------------------------------ C35
\* C35: the handleChunkUpload calls for one identifier call mergeChunks at
\* most once, and no mergeChunks finds a chunk already deleted.
C35_MergedExactlyOnce ==
  /\ uploadDirectory.merges <= 1
  /\ \A c \in DOMAIN uploadDirectory.calls :
       uploadDirectory.calls[c].pc # "rejected"

\* ------------------------------------------------------------------ C36
\* C36: activeUploads never holds more than maxActiveUploads sessions.
C36_AtMostMaxActiveUploads ==
  Cardinality(DOMAIN activeUploads) <= maxActiveUploads

\* ------------------------------------------------------------------ C37
\* C37: the hook has at most one chunk request in flight.
C37_OneRequestInFlight == Len(flights) <= 1

\* ------------------------------------------------------------------ C38
\* C38: for every chunkSize of the hook and every fileSize > 0, the hook's
\* number of chunks is the totalChunks of the session that POST /initiate
\* has made for the file, no chunk of the hook's split is refused for its
\* index, and isComplete is true exactly when every chunk of the split is
\* uploaded.
C38_ChunkCountsAgree ==
  LET chunks == splitFileIntoChunks(currentFileRef, chunkSize)
      indices == {chunk.index : chunk \in SetOf(chunks)}
      sessions == {uploadId \in DOMAIN uploadSessions :
                     uploadSessions[uploadId].fileSize = currentFileRef}
  IN currentFileRef > 0 =>
       /\ \A uploadId \in sessions :
            uploadSessions[uploadId].totalChunks = Len(chunks)
       /\ response.op = "uploadChunk" =>
            response.message # "Invalid chunk index"
       /\ (response.op = "getUploadStatus" /\ response.kind = "ok"
            /\ response.fileId \in sessions) =>
            (response.isComplete
               <=> SetOf(response.uploadedChunks) = indices)

\* ------------------------------------------------------------------ C39
\* C39: a final file that a complete call has written is not truncated or
\* overwritten afterwards, by a complete call of another session or by a
\* repeated or failed complete call of its own session: no step takes away
\* or changes a byte that a final file holds.
C39_FinalFilesAreKept ==
  [][\A fileName \in DOMAIN finalFiles :
       /\ fileName \in DOMAIN finalFiles'
       /\ Len(finalFiles'[fileName]) >= Len(finalFiles[fileName])
       /\ SubSeq(finalFiles'[fileName], 1, Len(finalFiles[fileName]))
            = finalFiles[fileName]]_vars

\* ------------------------------------------------------------------ C40
\* C40: uploadedChunksRef holds no index twice, holds only indices of
\* chunks of the current file that the server has got in the upload the
\* hook is at, and holds at most totalChunksRef indices.
C40_UploadedChunksAreOfTheFile ==
  /\ \A i \in 1..Len(uploadedChunksRef), j \in 1..Len(uploadedChunksRef) :
       i # j => uploadedChunksRef[i] # uploadedChunksRef[j]
  /\ \A i \in 1..Len(uploadedChunksRef) :
       /\ currentFileRef # 0
       /\ uploadedChunksRef[i] \in
            {chunk.index :
               chunk \in SetOf(splitFileIntoChunks(currentFileRef, chunkSize))}
       /\ \E uploadId \in 1..server.uploads :
            <<uploadId, uploadedChunksRef[i]>> \in server.accepted
  /\ Len(uploadedChunksRef) <= totalChunksRef

====
